---- MODULE Spec2Model ----
(***************************************************************************)
(* FetchGuard: the worker (src/src/worker.ts) that owns the token state,   *)
(* and the client (src/src/client.ts) that queues messages to it and       *)
(* correlates its answers by message id.                                   *)
(*                                                                         *)
(* One action is one synchronous segment of JavaScript: a message handler  *)
(* or timer callback up to its next await on the outside world (provider   *)
(* call, network call, timer), together with the promise reactions         *)
(* (microtasks) that run before the event loop takes the next task.        *)
(***************************************************************************)
EXTENDS Integers, Sequences, FiniteSets, TLC

(* ---------------------------------------------------------------- bounds *)

\* Number of requests (fetch / call / ping) the application issues when the
\* worker is studied.
MaxReq == 2

\* Number of clock steps of TickMs the worker's Date.now() advances.
MaxTicks == 1

\* Number of cancel(id) calls the application makes.
MaxCancels == 1

\* Number of URLs validated when validateDomain is studied.
MaxChecked == 1

\* Number of requests the application issues when the queue is studied.
MaxQueued == 3

(* ------------------------------------------------------------- constants *)

DEFAULT_REFRESH_EARLY_MS == 60000

\* Granularity of the modelled clock, and the lifetimes a backend grants.
TickMs == DEFAULT_REFRESH_EARLY_MS

ShortLife == DEFAULT_REFRESH_EARLY_MS \div 2

LongLife == 2 * DEFAULT_REFRESH_EARLY_MS

(* ---------------------------------------------------- JavaScript values  *)

\* String-valued fields (token, refreshToken, user) use these sentinels.
Null == "null"

Undef == "undefined"

Absent == "absent"

\* Number-valued fields (expiresAt) use these sentinels.
NullN == -1

UndefN == -2

AbsentN == -3

TokenStrings == {"tA", "tB"}

\* value ?? null
NullishS(v) == IF v = Undef THEN Null ELSE v

NullishN(v) == IF v = UndefN THEN NullN ELSE v

\* JavaScript truthiness of a string | null and of a number | null
TruthyS(v) == v \notin {Null, Undef, Absent, ""}

TruthyN(v) == v \notin {NullN, UndefN, AbsentN, 0}

(* ------------------------------------------------------------- strings  *)

\* A string is a sequence of one-character strings; indices are 0-based as
\* in JavaScript.
IndexOf(s, c) ==
    IF \E i \in 1..Len(s) : s[i] = c
    THEN (CHOOSE i \in 1..Len(s) : s[i] = c /\ \A j \in 1..(i - 1) : s[j] /= c) - 1
    ELSE 0 - 1

LastIndexOf(s, c) ==
    IF \E i \in 1..Len(s) : s[i] = c
    THEN (CHOOSE i \in 1..Len(s) : s[i] = c /\ \A j \in (i + 1)..Len(s) : s[j] /= c) - 1
    ELSE 0 - 1

\* s.slice(a, b) and s.slice(a) for 0 <= a
Slice(s, a, b) == SubSeq(s, a + 1, b)

SliceFrom(s, a) == SubSeq(s, a + 1, Len(s))

StartsWith(s, p) == Len(p) <= Len(s) /\ SubSeq(s, 1, Len(p)) = p

EndsWith(s, p) == Len(p) <= Len(s) /\ SubSeq(s, Len(s) - Len(p) + 1, Len(s)) = p

(* ------------------------------------------------- domain allow-list     *)

\* The loop body with `hostname.endsWith(base)` for a wildcard.
entryMatchesNoDot(entry, hostname, port) ==
    LET idx == LastIndexOf(entry, ":")
        hasPort == idx > (0 - 1) /\ IndexOf(entry, ":") = idx
        pattern == IF hasPort THEN Slice(entry, 0, idx) ELSE entry
        entryPort == IF hasPort THEN SliceFrom(entry, idx + 1) ELSE <<>>
        isWildcard == StartsWith(pattern, <<"*", ".">>)
        base == IF isWildcard THEN SliceFrom(pattern, 2) ELSE pattern
        hostnameMatch ==
            IF isWildcard
            THEN hostname = base \/ EndsWith(hostname, base)
            ELSE hostname = base
    IN  /\ hostnameMatch
        /\ (hasPort => port = entryPort)

\* The loop body without the port test.
entryMatchesAnyPort(entry, hostname, port) ==
    LET idx == LastIndexOf(entry, ":")
        hasPort == idx > (0 - 1) /\ IndexOf(entry, ":") = idx
        pattern == IF hasPort THEN Slice(entry, 0, idx) ELSE entry
        isWildcard == StartsWith(pattern, <<"*", ".">>)
        base == IF isWildcard THEN SliceFrom(pattern, 2) ELSE pattern
    IN  IF isWildcard
        THEN hostname = base \/ EndsWith(hostname, <<".">> \o base)
        ELSE hostname = base

\* One entry of config.allowedDomains against a parsed URL (the body of the
\* for loop of validateDomain): TRUE when the loop returns true on it.
entryMatches(entry, hostname, port) ==
    LET idx == LastIndexOf(entry, ":")
        hasPort == idx > (0 - 1) /\ IndexOf(entry, ":") = idx
        pattern == IF hasPort THEN Slice(entry, 0, idx) ELSE entry
        entryPort == IF hasPort THEN SliceFrom(entry, idx + 1) ELSE <<>>
        isWildcard == StartsWith(pattern, <<"*", ".">>)
        base == IF isWildcard THEN SliceFrom(pattern, 2) ELSE pattern
        hostnameMatch ==
            IF isWildcard
            THEN hostname = base \/ EndsWith(hostname, <<".">> \o base)
            ELSE hostname = base
    IN  /\ hostnameMatch
        /\ (hasPort => port = entryPort)

\* validateDomain(url) under config.allowedDomains = allowed.  A url is the
\* outcome of new URL(url): [ok |-> FALSE] when it throws, else its
\* hostname and port.
validateDomain(allowed, url) ==
    IF Len(allowed) = 0 THEN TRUE
    ELSE IF ~url.ok THEN FALSE
    ELSE \E i \in 1..Len(allowed) : entryMatches(allowed[i], url.hostname, url.port)

(* ------------------------------------------------------------ inputs    *)

\* generateMessageId gives the SETUP message the first id.
SetupId == 1

Ids == (SetupId + 1)..(SetupId + (IF MaxReq > MaxQueued THEN MaxReq ELSE MaxQueued))

\* "a.e.c" stands for api.example.com, "e.c.x" for example.com.evil.com.
UrlApi == [ok |-> TRUE, hostname |-> <<"a", ".", "e", ".", "c">>, port |-> <<>>]

UrlEvil == [ok |-> TRUE, hostname |-> <<"e", ".", "c", ".", "x">>, port |-> <<>>]

FetchUrls == {UrlApi, UrlEvil}

\* options.allowedDomains of the client under study: "*.e.c" and "l:5".
AllowedDomains == << <<"*", ".", "e", ".", "c">>, <<"l", ":", "5">> >>

\* options.provider: a preset the worker can build, or one whose build throws
\* (unknown preset type, unregistered name).
ProviderConfigs == {"preset", "unbuildable"}

AuthMethods == {"login", "refreshToken", "nosuch"}

ProviderMethods == {"login", "logout", "refreshToken"}

\* A TokenInfo: each key is absent, or present with a value.
TokenInfo(t, e, u, r) == [token |-> t, expiresAt |-> e, user |-> u, refreshToken |-> r]

EmptyInfo == TokenInfo(Absent, AbsentN, Absent, Absent)

\* What a provider operation may return as data at time t.
TokenInfos(t) ==
    { TokenInfo("tA", t + LongLife, "u1", "rA"),
      TokenInfo("tB", t + ShortLife, Absent, Absent),
      TokenInfo("tA", UndefN, Undef, Undef),
      TokenInfo("", UndefN, Undef, Undef),
      TokenInfo("", t + LongLife, Absent, Absent),
      TokenInfo(Absent, AbsentN, "u2", Absent) }

\* Outcome of awaiting a provider method: it resolves to an error Result, to
\* ok(null), to ok(TokenInfo), or the promise rejects.
ProviderOutcomes(t) ==
    { [kind |-> k, data |-> EmptyInfo] : k \in {"error", "null", "throw"} }
        \cup { [kind |-> "ok", data |-> ti] : ti \in TokenInfos(t) }

\* Outcome of awaiting fetch(): a 2xx response, a non-2xx response, a
\* rejection (network failure), or an AbortError.
NetworkOutcomes == {"ok", "http_error", "network_error"}

(* ------------------------------------------------------------- state     *)

VARIABLES
    \* --- client (FetchGuardClient)
    messageId,          \* counter behind generateMessageId
    requests,           \* the message built for each id, in order of issue
    pendingRequests,    \* ids in the pendingRequests map
    requestQueue,       \* ids of the queued items, FIFO
    isProcessingQueue,  \* the re-entrancy flag of processQueue
    loops,              \* processQueue activations suspended at their delay
    timers,             \* ids whose queue timeout is armed
    promise,            \* per id: the settlements of the caller's promise
    isReady,
    terminated,         \* worker.terminate() was called
    \* --- the message channel
    toWorker,           \* posted to the worker, not yet handled
    toHost,             \* posted by the worker, not yet handled
    \* --- worker closure
    config,
    provider,
    tokenState,         \* accessToken, refreshToken, expiresAt, currentUser
    pendingControllers, \* ids with an AbortController registered
    aborted,            \* ids whose controller.abort() was called
    refreshPromise,     \* TRUE while refreshPromise is non-null
    refreshRejected,    \* the promise refreshPromise holds is rejected already
    task,               \* per id: where the handler of that message stands
    now,                \* Date.now() in the worker
    \* --- observation
    responses,          \* per id: the responses the worker posted for it
    dueRefreshes,       \* refreshes started for a FETCH that found the token
                        \* missing or inside the refresh window
    attached,           \* per id: the bearer token on its pending network call
    fetchOptions,       \* per id: the keys of the init object of that call
    heard,              \* how often the auth listener has been called
    calls,              \* per id: how many provider.refreshToken calls and
                        \* how many fetch() calls its FETCH handler has made
    lapsed,             \* ids whose timeout fired while they were queued
    passed,             \* per id: the argument of its pending
                        \* provider.refreshToken call
    overtaken,          \* a login has succeeded while the refresh of
                        \* ensureValidToken was pending
    storeReads,         \* ids whose provider call read the refresh-token store
    applied,            \* the last setTokenState call made on its own
    storage,            \* the refresh token in the provider's RefreshTokenStorage
    timedOut            \* ids whose timeout fired before any response arrived

hostVars == <<messageId, requests, pendingRequests, requestQueue,
              isProcessingQueue, loops, timers, promise, isReady, terminated>>

chanVars == <<toWorker, toHost>>

workerVars == <<config, provider, tokenState, pendingControllers, aborted,
                refreshPromise, refreshRejected, task, now>>

obsVars == <<responses, dueRefreshes, attached, timedOut, applied,
             fetchOptions, heard, overtaken, calls, lapsed, passed>>

vars == <<hostVars, chanVars, workerVars, obsVars, storage, storeReads>>

(* ------------------------------------------------------- token state     *)

Baseline == [accessToken |-> Null, refreshToken |-> Null,
             expiresAt |-> NullN, currentUser |-> Undef]

\* setTokenState testing `tokenInfo.key !== undefined` in place of
\* `'key' in tokenInfo`.
setTokenStateIfDefined(st, tokenInfo) ==
    [accessToken  |-> IF tokenInfo.token \notin {Absent, Undef}
                      THEN tokenInfo.token ELSE st.accessToken,
     expiresAt    |-> IF tokenInfo.expiresAt \notin {AbsentN, UndefN}
                      THEN tokenInfo.expiresAt ELSE st.expiresAt,
     currentUser  |-> IF tokenInfo.user \notin {Absent, Undef}
                      THEN tokenInfo.user ELSE st.currentUser,
     refreshToken |-> IF tokenInfo.refreshToken \notin {Absent, Undef}
                      THEN tokenInfo.refreshToken ELSE st.refreshToken]

\* setTokenState without its event: the fields after the call.
setTokenState(st, tokenInfo) ==
    [accessToken  |-> IF tokenInfo.token /= Absent
                      THEN NullishS(tokenInfo.token) ELSE st.accessToken,
     expiresAt    |-> IF tokenInfo.expiresAt /= AbsentN
                      THEN NullishN(tokenInfo.expiresAt) ELSE st.expiresAt,
     currentUser  |-> IF tokenInfo.user /= Absent
                      THEN tokenInfo.user ELSE st.currentUser,
     refreshToken |-> IF tokenInfo.refreshToken /= Absent
                      THEN NullishS(tokenInfo.refreshToken) ELSE st.refreshToken]

\* The literal ensureValidToken passes to setTokenState when the provider
\* answers with an error Result.
RefreshFailedInfo == TokenInfo(Null, NullN, Undef, Undef)

\* The derived flag of postAuthChanged and of the AUTH_CALL handler.
authenticated(st, t) ==
    /\ st.accessToken /= Null
    /\ st.accessToken /= ""
    /\ (st.expiresAt = NullN \/ st.expiresAt > t)

\* An AuthResult that also carries the access token.
authResultWithToken(st, t) ==
    [authenticated |-> authenticated(st, t),
     expiresAt |-> st.expiresAt,
     user |-> st.currentUser,
     token |-> st.accessToken]

\* The AuthResult both of them send.
authResult(st, t) ==
    [authenticated |-> authenticated(st, t),
     expiresAt |-> st.expiresAt,
     user |-> st.currentUser]

NoCall == [done |-> FALSE, before |-> Baseline, tokenInfo |-> EmptyInfo]

(* --------------------------------------------------- worker-post helpers *)

EvtId == 0

sendAuthStateChanged(payload) ==
    [type |-> "AUTH_STATE_CHANGED", id |-> EvtId, payload |-> payload]

sendAuthCallResult(id, payload) ==
    [type |-> "AUTH_CALL_RESULT", id |-> id, payload |-> payload]

sendPong(id) == [type |-> "PONG", id |-> id, payload |-> [timestamp |-> "ts"]]

sendReady == [type |-> "READY", id |-> EvtId, payload |-> [none |-> TRUE]]

sendSetupError(error) ==
    [type |-> "SETUP_ERROR", id |-> EvtId, payload |-> [error |-> error]]

sendError(id, code) == [type |-> "ERROR", id |-> id, payload |-> [errors |-> code]]

sendFetchResult(id, status) ==
    [type |-> "FETCH_RESULT", id |-> id, payload |-> [status |-> status, body |-> "body"]]

sendFetchError(id, error) ==
    [type |-> "FETCH_ERROR", id |-> id, payload |-> [error |-> error]]

postAuthChanged(st, t) == sendAuthStateChanged(authResult(st, t))

(* ------------------------------------------------- worker: decisions     *)

NoConfig == [isNull |-> TRUE, allowedDomains |-> <<>>, refreshEarlyMs |-> UndefN]

\* config?.refreshEarlyMs ?? DEFAULT_REFRESH_EARLY_MS
refreshEarlyMs(cfg) ==
    IF cfg.isNull \/ cfg.refreshEarlyMs \in {UndefN, NullN}
    THEN DEFAULT_REFRESH_EARLY_MS ELSE cfg.refreshEarlyMs

\* The stored access token is missing or inside the refresh window.
missingOrDue(st, cfg, t) ==
    \/ st.accessToken = Null
    \/ st.expiresAt /= NullN /\ st.expiresAt - t <= refreshEarlyMs(cfg)

\* ensureValidToken without the `if (refreshPromise)` branch: every call that
\* finds the token due starts a refresh of its own.
ensureValidTokenNoJoin(prov, st, cfg, t, rp) ==
    IF ~prov THEN "INIT_ERROR"
    ELSE IF /\ TruthyS(st.accessToken)
            /\ TruthyN(st.expiresAt)
            /\ st.expiresAt - t > refreshEarlyMs(cfg)
         THEN "valid"
    ELSE "start"

\* ensureValidToken comparing `timeLeft >= refreshEarlyMs`.
ensureValidTokenInclusive(prov, st, cfg, t, rp) ==
    IF ~prov THEN "INIT_ERROR"
    ELSE IF /\ TruthyS(st.accessToken)
            /\ TruthyN(st.expiresAt)
            /\ st.expiresAt - t >= refreshEarlyMs(cfg)
         THEN "valid"
    ELSE IF rp THEN "join"
    ELSE "start"

\* ensureValidToken up to its first await: the error it returns, the token
\* it returns at once ("valid"), the pending refresh it awaits ("join"), or
\* the refresh it starts ("start").
ensureValidToken(prov, st, cfg, t, rp) ==
    IF ~prov THEN "INIT_ERROR"
    ELSE IF /\ TruthyS(st.accessToken)
            /\ TruthyN(st.expiresAt)
            /\ st.expiresAt - t > refreshEarlyMs(cfg)
         THEN "valid"
    ELSE IF rp THEN "join"
    ELSE "start"

\* makeApiRequest obtaining the token before it validates the domain.
makeApiRequestTokenFirst(cfg, prov, st, t, rp, url, requiresAuth) ==
    IF cfg.isNull THEN "INIT_ERROR"
    ELSE IF requiresAuth /\ ensureValidToken(prov, st, cfg, t, rp) \in {"join", "start"}
         THEN ensureValidToken(prov, st, cfg, t, rp)
    ELSE IF ~validateDomain(cfg.allowedDomains, url) THEN "DOMAIN_NOT_ALLOWED"
    ELSE IF requiresAuth THEN ensureValidToken(prov, st, cfg, t, rp)
    ELSE "public"

\* makeApiRequest calling ensureValidToken whatever requiresAuth is.
makeApiRequestAlwaysAuth(cfg, prov, st, t, rp, url, requiresAuth) ==
    IF cfg.isNull THEN "INIT_ERROR"
    ELSE IF ~validateDomain(cfg.allowedDomains, url) THEN "DOMAIN_NOT_ALLOWED"
    ELSE ensureValidToken(prov, st, cfg, t, rp)

\* makeApiRequest up to its first await.
makeApiRequest(cfg, prov, st, t, rp, url, requiresAuth) ==
    IF cfg.isNull THEN "INIT_ERROR"
    ELSE IF ~validateDomain(cfg.allowedDomains, url) THEN "DOMAIN_NOT_ALLOWED"
    ELSE IF requiresAuth THEN ensureValidToken(prov, st, cfg, t, rp)
    ELSE "public"

\* The keys of the init object makeApiRequest gives to fetch(): those of the
\* options the FETCH handler merged with `signal`, but for requiresAuth and
\* includeHeaders, with `headers` and `credentials`.  (A payload of the model
\* holds the url and, beside it, the options.)
fetchInit(payload) ==
    (((DOMAIN payload \ {"url"}) \cup {"signal"}) \ {"requiresAuth", "includeHeaders"})
        \cup {"headers", "credentials"}

\* The Authorization header makeApiRequest sets from ensureValidToken's
\* data: the token if truthy, else no header.
bearer(token) == IF TruthyS(token) THEN token ELSE Null

\* SETUP: the provider the worker builds from providerConfig.
buildProvider(providerConfig) == providerConfig = "preset"

(* ------------------------------------------------- worker: handlers      *)

\* What is recorded of an answer: its type and, for an error, which one.
Label(m) ==
    <<m.type, IF m.type = "FETCH_ERROR" THEN m.payload.error
              ELSE IF m.type = "ERROR" THEN m.payload.errors
              ELSE "-">>

\* The answers to id among the messages ms, as recorded.
RECURSIVE Labels(_, _)
Labels(ms, id) ==
    IF ms = <<>> THEN <<>>
    ELSE (IF Head(ms).id = id THEN <<Label(Head(ms))>> ELSE <<>>) \o Labels(Tail(ms), id)

\* The worker posts the messages ms.
PostAll(ms) ==
    /\ toHost' = toHost \o ms
    /\ responses' = [i \in Ids |-> responses[i] \o Labels(ms, i)]

Respond(id, m) == PostAll(<<m>>)

\* SETUP going on to sendReady() after it has sent SETUP_ERROR.
OnSetupFallsThrough(m) ==
    /\ config' = m.payload.config
    /\ provider' = buildProvider(m.payload.providerConfig)
    /\ toHost' = toHost \o (IF buildProvider(m.payload.providerConfig)
                            THEN <<sendReady>>
                            ELSE <<sendSetupError("build failed"), sendReady>>)
    /\ UNCHANGED <<tokenState, pendingControllers, aborted, refreshPromise,
                   refreshRejected, task, now>>
    /\ UNCHANGED <<obsVars, storage, storeReads>>

OnSetup(m) ==
    /\ config' = m.payload.config
    /\ provider' = buildProvider(m.payload.providerConfig)
    /\ toHost' = Append(toHost, IF buildProvider(m.payload.providerConfig)
                                THEN sendReady
                                ELSE sendSetupError("build failed"))
    /\ UNCHANGED <<tokenState, pendingControllers, aborted, refreshPromise,
                   refreshRejected, task, now>>
    /\ UNCHANGED <<obsVars, storage, storeReads>>

OnFetch(m) ==
    LET id == m.id
        d == makeApiRequest(config, provider, tokenState, now, refreshPromise,
                            m.payload.url, m.payload.requiresAuth)
    IN  /\ task[id] = "none"
        /\ CASE d \in {"INIT_ERROR", "DOMAIN_NOT_ALLOWED"} ->
                  /\ Respond(id, sendFetchError(id, d))
                  /\ task' = [task EXCEPT ![id] = "done"]
                  /\ UNCHANGED <<pendingControllers, refreshPromise, dueRefreshes,
                                 attached, fetchOptions, passed>>
             [] d \in {"valid", "public"} ->
                  /\ task' = [task EXCEPT ![id] = "fetch"]
                  /\ attached' = [attached EXCEPT ![id] =
                        IF d = "valid" THEN bearer(tokenState.accessToken) ELSE Null]
                  /\ fetchOptions' = [fetchOptions EXCEPT ![id] = fetchInit(m.payload)]
                  /\ pendingControllers' = pendingControllers \cup {id}
                  /\ UNCHANGED <<refreshPromise, dueRefreshes, toHost, responses,
                                 passed>>
             [] d = "join" /\ refreshRejected ->
                  /\ Respond(id, sendFetchError(id, "THROWN"))
                  /\ task' = [task EXCEPT ![id] = "done"]
                  /\ UNCHANGED <<pendingControllers, refreshPromise, dueRefreshes,
                                 attached, fetchOptions, passed>>
             [] d = "join" /\ ~refreshRejected ->
                  /\ task' = [task EXCEPT ![id] = "join"]
                  /\ pendingControllers' = pendingControllers \cup {id}
                  /\ UNCHANGED <<refreshPromise, dueRefreshes, attached, fetchOptions,
                                 toHost, responses, passed>>
             [] d = "start" ->
                  /\ task' = [task EXCEPT ![id] = "refresh"]
                  /\ refreshPromise' = TRUE
                  /\ dueRefreshes' = dueRefreshes +
                        (IF missingOrDue(tokenState, config, now) THEN 1 ELSE 0)
                  /\ passed' = [passed EXCEPT ![id] = tokenState.refreshToken]
                  /\ pendingControllers' = pendingControllers \cup {id}
                  /\ UNCHANGED <<attached, fetchOptions, toHost, responses>>
        /\ calls' = [calls EXCEPT ![id] =
              [refresh |-> @.refresh + (IF d = "start" THEN 1 ELSE 0),
               network |-> @.network + (IF d \in {"valid", "public"} THEN 1 ELSE 0)]]
        /\ UNCHANGED <<config, provider, tokenState, aborted, refreshRejected, now>>
        /\ UNCHANGED <<timedOut, applied, heard, overtaken, lapsed, storage, storeReads>>

\* The FETCH handler when ensureValidToken starts a refresh and
\* provider.refreshToken throws instead of returning a promise: the async
\* block runs its finally and returns a rejected promise before the
\* assignment `refreshPromise = ...` takes place, so the rejected promise is
\* what refreshPromise holds afterwards; `await refreshPromise` throws and the
\* handler answers from its catch.
OnFetchSyncThrow(m) ==
    LET id == m.id IN
    /\ task[id] = "none"
    /\ makeApiRequest(config, provider, tokenState, now, refreshPromise,
                      m.payload.url, m.payload.requiresAuth) = "start"
    /\ refreshPromise' = TRUE
    /\ refreshRejected' = TRUE
    /\ dueRefreshes' = dueRefreshes +
          (IF missingOrDue(tokenState, config, now) THEN 1 ELSE 0)
    /\ Respond(id, sendFetchError(id, "THROWN"))
    /\ task' = [task EXCEPT ![id] = "done"]
    /\ calls' = [calls EXCEPT ![id].refresh = @ + 1]
    /\ UNCHANGED <<config, provider, tokenState, pendingControllers, aborted, now>>
    /\ UNCHANGED <<attached, fetchOptions, timedOut, applied, heard, overtaken, lapsed, passed,
                   storage, storeReads>>

\* args[0] as the provider method receives it through `...args`: undefined
\* when call() was given no argument.  (A payload of the model without
\* `args` stands for args = [].)
firstArgument(payload) ==
    IF "args" \in DOMAIN payload /\ payload.args /= <<>>
    THEN payload.args[1] ELSE Undef

OnAuthCall(m) ==
    LET id == m.id IN
    /\ task[id] = "none"
    /\ IF ~provider
       THEN /\ Respond(id, sendError(id, "INIT_ERROR"))
            /\ task' = [task EXCEPT ![id] = "done"]
            /\ UNCHANGED passed
       ELSE IF m.payload.method \notin ProviderMethods
       THEN /\ Respond(id, sendError(id, "UNEXPECTED"))
            /\ task' = [task EXCEPT ![id] = "done"]
            /\ UNCHANGED passed
       ELSE /\ task' = [task EXCEPT ![id] = "auth"]
            /\ passed' = [passed EXCEPT ![id] =
                  IF m.payload.method = "refreshToken"
                  THEN firstArgument(m.payload) ELSE Absent]
            /\ UNCHANGED <<toHost, responses>>
    /\ UNCHANGED <<config, provider, tokenState, pendingControllers, aborted,
                   refreshPromise, refreshRejected, now>>
    /\ UNCHANGED <<dueRefreshes, attached, timedOut, applied, storage, storeReads>>
    /\ UNCHANGED <<fetchOptions, heard, overtaken, calls, lapsed>>

\* CANCEL aborting every registered controller.
OnCancelAll(m) ==
    /\ aborted' = aborted \cup pendingControllers
    /\ pendingControllers' = {}
    /\ UNCHANGED <<config, provider, tokenState, refreshPromise, refreshRejected,
                   task, now, toHost>>
    /\ UNCHANGED <<obsVars, storage, storeReads>>

\* CANCEL answering with a cancellation error when it finds no controller.
OnCancelReportsMissing(m) ==
    /\ IF m.id \in pendingControllers
       THEN /\ aborted' = aborted \cup {m.id}
            /\ pendingControllers' = pendingControllers \ {m.id}
            /\ UNCHANGED <<toHost, responses>>
       ELSE /\ Respond(m.id, sendFetchError(m.id, "REQUEST_CANCELLED"))
            /\ UNCHANGED <<aborted, pendingControllers>>
    /\ UNCHANGED <<config, provider, tokenState, refreshPromise, refreshRejected,
                   task, now>>
    /\ UNCHANGED <<dueRefreshes, attached, timedOut, applied, fetchOptions, heard, overtaken, calls,
                   lapsed, passed, storage, storeReads>>

OnCancel(m) ==
    /\ IF m.id \in pendingControllers
       THEN /\ aborted' = aborted \cup {m.id}
            /\ pendingControllers' = pendingControllers \ {m.id}
       ELSE UNCHANGED <<aborted, pendingControllers>>
    /\ UNCHANGED <<config, provider, tokenState, refreshPromise, refreshRejected,
                   task, now, toHost>>
    /\ UNCHANGED <<obsVars, storage, storeReads>>

OnPing(m) ==
    /\ Respond(m.id, sendPong(m.id))
    /\ task' = [task EXCEPT ![m.id] = "done"]
    /\ UNCHANGED <<config, provider, tokenState, pendingControllers, aborted,
                   refreshPromise, refreshRejected, now>>
    /\ UNCHANGED <<dueRefreshes, attached, timedOut, applied, storage, storeReads>>
    /\ UNCHANGED <<fetchOptions, heard, overtaken, calls, lapsed, passed>>

\* self.onmessage up to the handler's first await.
WorkerReceive ==
    /\ ~terminated
    /\ toWorker /= <<>>
    /\ toWorker' = Tail(toWorker)
    /\ LET m == Head(toWorker) IN
         CASE m.type = "SETUP" -> OnSetup(m)
           [] m.type = "FETCH" -> OnFetch(m)
           [] m.type = "AUTH_CALL" -> OnAuthCall(m)
           [] m.type = "CANCEL" -> OnCancel(m)
           [] m.type = "PING" -> OnPing(m)
    /\ UNCHANGED hostVars

\* self.onmessage for a FETCH whose refresh throws at once.
WorkerReceiveSyncThrow ==
    /\ ~terminated
    /\ toWorker /= <<>>
    /\ Head(toWorker).type = "FETCH"
    /\ toWorker' = Tail(toWorker)
    /\ OnFetchSyncThrow(Head(toWorker))
    /\ UNCHANGED hostVars

(* ------------------------------------------------- worker: completions   *)

\* The elements of a set of ids in ascending order (the order in which the
\* worker received them).
RECURSIVE Ascending(_)
Ascending(S) ==
    IF S = {} THEN <<>>
    ELSE LET i == CHOOSE x \in S : \A y \in S : x <= y
         IN  <<i>> \o Ascending(S \ {i})

\* The catch of the FETCH handler posting nothing.
FetchErrorsDropped(ids, error) == <<>>

\* The FETCH_ERROR each FETCH handler posts from its catch.
RECURSIVE FetchErrors(_, _)
FetchErrors(ids, error) ==
    IF ids = <<>> THEN <<>>
    ELSE <<sendFetchError(Head(ids), error)>> \o FetchErrors(Tail(ids), error)

\* provider.refreshToken(refreshToken), called inside refreshPromise, settles.
\* (What the call did to the provider's storage is left to the provider.)
\* The async block runs to its finally; then the reactions of every
\* `await refreshPromise` run: each ensureValidToken returns ok(accessToken)
\* and its makeApiRequest goes on to fetch(), or, when the block threw, each
\* FETCH handler lands in its catch.
RefreshReturns(id, o) ==
    LET st == CASE o.kind = "error" -> setTokenState(tokenState, RefreshFailedInfo)
                [] o.kind = "ok" -> setTokenState(tokenState, o.data)
                [] OTHER -> tokenState
        W == {id} \cup {j \in Ids : task[j] = "join"}
        event == IF o.kind \in {"error", "ok"} THEN <<postAuthChanged(st, now)>> ELSE <<>>
    IN  /\ ~terminated
        /\ task[id] = "refresh"
        /\ tokenState' = st
        /\ refreshPromise' = FALSE
        /\ IF o.kind = "throw"
           THEN /\ PostAll(FetchErrors(Ascending(W), "THROWN"))
                /\ task' = [j \in Ids |-> IF j \in W THEN "done" ELSE task[j]]
                /\ pendingControllers' = pendingControllers \ W
                /\ aborted' = aborted \ W
                /\ UNCHANGED <<attached, fetchOptions, calls>>
           ELSE /\ PostAll(event)
                /\ task' = [j \in Ids |-> IF j \in W THEN "fetch" ELSE task[j]]
                /\ attached' = [j \in Ids |->
                        IF j \in W THEN bearer(st.accessToken) ELSE attached[j]]
                /\ fetchOptions' = [j \in Ids |->
                        IF j \in W THEN fetchInit(requests[j].payload)
                        ELSE fetchOptions[j]]
                /\ calls' = [j \in Ids |->
                        IF j \in W THEN [calls[j] EXCEPT !.network = @ + 1]
                        ELSE calls[j]]
                /\ UNCHANGED <<pendingControllers, aborted>>
        /\ UNCHANGED <<config, provider, refreshRejected, now, toWorker>>
        /\ passed' = [passed EXCEPT ![id] = Absent]
        /\ UNCHANGED <<dueRefreshes, timedOut, applied, heard, lapsed>>
        /\ overtaken' = FALSE
        /\ UNCHANGED hostVars

\* makeApiRequest calling fetch() again when the call was rejected.
NetworkReturnsRetries(id, o) ==
    /\ ~terminated
    /\ task[id] = "fetch"
    /\ IF id \in aborted THEN o = "aborted" ELSE o \in NetworkOutcomes
    /\ IF o = "network_error"
       THEN /\ calls' = [calls EXCEPT ![id].network = @ + 1]
            /\ UNCHANGED <<toHost, responses, task, attached, fetchOptions,
                           pendingControllers, aborted>>
       ELSE /\ Respond(id, CASE o = "ok" -> sendFetchResult(id, 200)
                            [] o = "http_error" -> sendFetchError(id, "HTTP_ERROR")
                            [] o = "aborted" -> sendFetchError(id, "REQUEST_CANCELLED"))
            /\ task' = [task EXCEPT ![id] = "done"]
            /\ attached' = [attached EXCEPT ![id] = Absent]
            /\ fetchOptions' = [fetchOptions EXCEPT ![id] = {}]
            /\ pendingControllers' = pendingControllers \ {id}
            /\ aborted' = aborted \ {id}
            /\ UNCHANGED calls
    /\ UNCHANGED <<config, provider, tokenState, refreshPromise, refreshRejected,
                   now, toWorker>>
    /\ UNCHANGED <<dueRefreshes, timedOut, applied, heard, overtaken, lapsed, passed, storage,
                   storeReads>>
    /\ UNCHANGED hostVars

\* The network call of a FETCH settles: makeApiRequest classifies it and the
\* handler posts the answer.
NetworkReturns(id, o) ==
    /\ ~terminated
    /\ task[id] = "fetch"
    /\ IF id \in aborted THEN o = "aborted" ELSE o \in NetworkOutcomes
    /\ Respond(id, CASE o = "ok" -> sendFetchResult(id, 200)
                     [] o = "http_error" -> sendFetchError(id, "HTTP_ERROR")
                     [] o = "network_error" -> sendFetchError(id, "NETWORK_ERROR")
                     [] o = "aborted" -> sendFetchError(id, "REQUEST_CANCELLED"))
    /\ task' = [task EXCEPT ![id] = "done"]
    /\ attached' = [attached EXCEPT ![id] = Absent]
    /\ fetchOptions' = [fetchOptions EXCEPT ![id] = {}]
    /\ pendingControllers' = pendingControllers \ {id}
    /\ aborted' = aborted \ {id}
    /\ UNCHANGED <<config, provider, tokenState, refreshPromise, refreshRejected,
                   now, toWorker>>
    /\ UNCHANGED <<dueRefreshes, timedOut, applied, heard, overtaken, calls, lapsed, passed, storage,
                   storeReads>>
    /\ UNCHANGED hostVars

\* setTokenState called with its default emitEvent whatever the payload says.
shouldEmitEventAlways(payload) == TRUE

\* emitEvent ?? true, an emitEvent left out of call() being undefined.
shouldEmitEvent(payload) ==
    IF "emitEvent" \in DOMAIN payload THEN payload.emitEvent ELSE TRUE

\* An AUTH_CALL handler that clears the token state when the provider
\* answers with an error, as ensureValidToken does.
authCallStateClears(st, o) ==
    CASE o.kind = "ok" -> setTokenState(st, o.data)
      [] o.kind = "error" -> setTokenState(st, RefreshFailedInfo)
      [] OTHER -> st

\* The token state the AUTH_CALL handler leaves: setTokenState is reached
\* only with the TokenInfo of a successful result.
authCallState(st, o) ==
    IF o.kind = "ok" THEN setTokenState(st, o.data) ELSE st

\* A login completes while the refresh that ensureValidToken started is
\* still pending: the handler of the AUTH_CALL runs between the start of
\* the refresh and the code after its await.
loginDuringRefresh(payload, o, pending) ==
    pending /\ o.kind = "ok" /\ payload.method = "login"

\* provider[method](...args) of an AUTH_CALL settles.
AuthReturns(id, o) ==
    LET st == authCallState(tokenState, o)
    IN  /\ ~terminated
        /\ task[id] = "auth"
        /\ tokenState' = st
        /\ PostAll(
              CASE o.kind = "error" -> <<sendError(id, "PROVIDER_ERROR")>>
                [] o.kind \in {"null", "throw"} -> <<sendError(id, "UNEXPECTED")>>
                [] o.kind = "ok" ->
                     (IF shouldEmitEvent(requests[id].payload)
                      THEN <<postAuthChanged(st, now)>> ELSE <<>>)
                        \o <<sendAuthCallResult(id, authResult(st, now))>>)
        /\ task' = [task EXCEPT ![id] = "done"]
        /\ UNCHANGED <<config, provider, pendingControllers, aborted, refreshPromise,
                       refreshRejected, now, toWorker>>
        /\ UNCHANGED <<dueRefreshes, attached, timedOut, applied>>
        /\ passed' = [passed EXCEPT ![id] = Absent]
        /\ UNCHANGED <<fetchOptions, heard, calls, lapsed>>
        /\ overtaken' = (overtaken \/ loginDuringRefresh(requests[id].payload, o, refreshPromise))
        /\ UNCHANGED hostVars

\* Time passes in the worker.
Tick ==
    /\ now < MaxTicks * TickMs
    /\ now' = now + TickMs
    /\ UNCHANGED <<config, provider, tokenState, pendingControllers, aborted,
                   refreshPromise, refreshRejected, task>>
    /\ UNCHANGED <<hostVars, chanVars, obsVars, storage, storeReads>>

(* ------------------------------------------------- client               *)

\* The timeout callback without its splice: the item stays in the queue.
WithoutKeeps(q, id) == q

RECURSIVE Without(_, _)
Without(q, id) ==
    IF q = <<>> THEN <<>>
    ELSE IF Head(q) = id THEN Without(Tail(q), id)
    ELSE <<Head(q)>> \o Without(Tail(q), id)

Range(q) == {q[i] : i \in 1..Len(q)}

\* A lookup that finds an entry for every id.
hasPendingAlways(pending, id) == TRUE

\* this.pendingRequests.get(id) finds an entry.
hasPending(pending, id) == id \in pending

\* worker.postMessage: nothing is delivered once the worker is terminated.
Post(chan, m) == IF terminated THEN chan ELSE Append(chan, m)

\* The catch of fetchWithId / call / ping for a rejected sendMessageQueued:
\* the caller's promise is rejected only if its entry is still in the table.
\* Given the ids whose queue promise rejects, the table as it stands and the
\* reason, the new settlements.
RejectIfPending(ids, pending, why) ==
    [i \in Ids |-> IF i \in ids /\ hasPending(pending, i)
                   THEN Append(promise[i], why) ELSE promise[i]]

\* processQueue taking its items with pop() in place of shift().
DrainFromEnd(q, pending, k) ==
    LET thrown == {q[i] : i \in (Len(q) - k + 1)..Len(q)} IN
    /\ k \in 0..Len(q)
    /\ timers' = (timers \cup Range(q)) \ thrown
    /\ promise' = RejectIfPending(thrown, pending, "rejected:post")
    /\ pendingRequests' = {i \in pending : ~(i \in thrown)}
    /\ IF k < Len(q)
       THEN /\ toWorker' = Post(toWorker, requests'[q[Len(q) - k]])
            /\ requestQueue' = SubSeq(q, 1, Len(q) - k - 1)
            /\ isProcessingQueue' = TRUE
       ELSE /\ toWorker' = toWorker
            /\ requestQueue' = <<>>
            /\ isProcessingQueue' = FALSE

\* processQueue without its last statement: the flag stays set when the loop
\* ends.
DrainKeepsFlag(q, pending, k) ==
    LET thrown == {q[i] : i \in 1..k} IN
    /\ k \in 0..Len(q)
    /\ timers' = (timers \cup Range(q)) \ thrown
    /\ promise' = RejectIfPending(thrown, pending, "rejected:post")
    /\ pendingRequests' = {i \in pending : ~(i \in thrown)}
    /\ isProcessingQueue' = TRUE
    /\ IF k < Len(q)
       THEN /\ toWorker' = Post(toWorker, requests'[q[k + 1]])
            /\ requestQueue' = SubSeq(q, k + 2, Len(q))
       ELSE /\ toWorker' = toWorker
            /\ requestQueue' = <<>>

\* processQueue from its while loop on, up to the await of the 50 ms delay or
\* the end of the loop: the first k items throw in postMessage (each is
\* rejected and the loop goes on at once), the next one is posted.
Drain(q, pending, k) ==
    LET thrown == {q[i] : i \in 1..k} IN
    /\ k \in 0..Len(q)
    /\ timers' = (timers \cup Range(q)) \ thrown
    /\ promise' = RejectIfPending(thrown, pending, "rejected:post")
    /\ pendingRequests' = {i \in pending : ~(i \in thrown)}
    /\ IF k < Len(q)
       THEN /\ toWorker' = Post(toWorker, requests'[q[k + 1]])
            /\ requestQueue' = SubSeq(q, k + 2, Len(q))
            /\ isProcessingQueue' = TRUE
       ELSE /\ toWorker' = toWorker
            /\ requestQueue' = <<>>
            /\ isProcessingQueue' = FALSE

\* processQueue without its `isProcessingQueue` guard: every enqueue runs the
\* loop.
IssueUnguarded(msg, ks, limit) ==
    LET id == messageId + 1
        m == [type |-> msg.type, id |-> id, payload |-> msg.payload]
        q == Append(requestQueue, id)
    IN  /\ messageId < SetupId + limit
        /\ messageId' = id
        /\ requests' = [requests EXCEPT ![id] = m]
        /\ \E k \in ks :
              /\ Drain(q, pendingRequests \cup {id}, k)
              /\ loops' = IF k < Len(q) THEN loops + 1 ELSE loops
        /\ UNCHANGED <<isReady, terminated, toHost>>
        /\ UNCHANGED <<workerVars, obsVars, storage, storeReads>>

\* fetchWithId / call / ping: register the pending entry, then
\* sendMessageQueued (arm the timeout, push, processQueue()).
Issue(msg, ks, limit) ==
    LET id == messageId + 1
        m == [type |-> msg.type, id |-> id, payload |-> msg.payload]
        q == Append(requestQueue, id)
    IN  /\ messageId < SetupId + limit
        /\ messageId' = id
        /\ requests' = [requests EXCEPT ![id] = m]
        /\ IF isProcessingQueue
           THEN /\ requestQueue' = q
                /\ timers' = timers \cup {id}
                /\ pendingRequests' = pendingRequests \cup {id}
                /\ UNCHANGED <<toWorker, promise, isProcessingQueue, loops>>
           ELSE \E k \in ks :
                   /\ Drain(q, pendingRequests \cup {id}, k)
                   /\ loops' = IF k < Len(q) THEN loops + 1 ELSE loops
        /\ UNCHANGED <<isReady, terminated, toHost>>
        /\ UNCHANGED <<workerVars, obsVars, storage, storeReads>>

FetchRequests ==
    { [type |-> "FETCH", payload |-> [url |-> u, requiresAuth |-> a]] :
        u \in FetchUrls, a \in BOOLEAN }

AuthRequests ==
    { [type |-> "AUTH_CALL", payload |-> [method |-> me, emitEvent |-> ev]] :
        me \in AuthMethods, ev \in BOOLEAN }

PingRequests == { [type |-> "PING", payload |-> [timestamp |-> "ts"]] }

\* processQueue ending after its first delay instead of testing the queue
\* again: what was enqueued during the delay stays where it is.
DelayExpiredEndsLoop(ks) ==
    /\ loops > 0
    /\ loops' = loops - 1
    /\ isProcessingQueue' = FALSE
    /\ UNCHANGED <<messageId, requests, pendingRequests, requestQueue, timers,
                   promise, isReady, terminated, toWorker, toHost>>
    /\ UNCHANGED <<workerVars, obsVars, storage, storeReads>>

\* The 50 ms delay of processQueue is over: the loop takes the next item or
\* ends.
DelayExpired(ks) ==
    /\ loops > 0
    /\ requests' = requests
    /\ \E k \in ks :
          /\ Drain(requestQueue, pendingRequests, k)
          /\ loops' = IF k < Len(requestQueue) THEN loops ELSE loops - 1
    /\ UNCHANGED <<messageId, isReady, terminated, toHost>>
    /\ UNCHANGED <<workerVars, obsVars, storage, storeReads>>

\* How many answers to id are still on their way to the client.
InTransit(id) == Cardinality({i \in 1..Len(toHost) : toHost[i].id = id})

\* The timeout callback of sendMessageQueued, followed by the caller's catch.
Timeout(id) ==
    /\ id \in timers
    /\ timers' = timers \ {id}
    /\ requestQueue' = Without(requestQueue, id)
    /\ pendingRequests' = pendingRequests \ {id}
    /\ promise' = RejectIfPending({id}, pendingRequests \ {id}, "rejected:timeout")
    /\ timedOut' = IF id \in pendingRequests /\ Len(responses[id]) = InTransit(id)
                   THEN timedOut \cup {id} ELSE timedOut
    /\ lapsed' = IF id \in Range(requestQueue) THEN lapsed \cup {id} ELSE lapsed
    /\ UNCHANGED <<messageId, requests, isProcessingQueue, loops, isReady, terminated>>
    /\ UNCHANGED <<chanVars, workerVars>>
    /\ UNCHANGED <<responses, dueRefreshes, attached, applied, storage, storeReads>>
    /\ UNCHANGED <<fetchOptions, heard, overtaken, calls, passed>>

Cancelled == {i \in Ids : \E n \in 1..Len(promise[i]) : promise[i][n] = "rejected:cancel"}

\* cancel(id)
Cancel(id) ==
    /\ Cardinality(Cancelled) < MaxCancels
    /\ hasPending(pendingRequests, id)
    /\ pendingRequests' = pendingRequests \ {id}
    /\ toWorker' = Post(toWorker, [type |-> "CANCEL", id |-> id])
    /\ promise' = [promise EXCEPT ![id] = Append(@, "rejected:cancel")]
    /\ UNCHANGED <<messageId, requests, requestQueue, isProcessingQueue, loops,
                   timers, isReady, terminated, toHost>>
    /\ UNCHANGED <<workerVars, obsVars, storage, storeReads>>

\* handleWorkerError without its for loop: the table is cleared and nobody is
\* told.
WorkerErrorClearsOnly ==
    /\ ~terminated
    /\ pendingRequests /= {}
    /\ promise' = promise
    /\ pendingRequests' = {}
    /\ UNCHANGED <<messageId, requests, requestQueue, isProcessingQueue, loops,
                   timers, isReady, terminated>>
    /\ UNCHANGED <<chanVars, workerVars, obsVars, storage, storeReads>>

\* handleWorkerError
WorkerError ==
    /\ ~terminated
    /\ pendingRequests /= {}
    /\ promise' = [i \in Ids |-> IF i \in pendingRequests
                                 THEN Append(promise[i], "rejected:worker")
                                 ELSE promise[i]]
    /\ pendingRequests' = {}
    /\ UNCHANGED <<messageId, requests, requestQueue, isProcessingQueue, loops,
                   timers, isReady, terminated>>
    /\ UNCHANGED <<chanVars, workerVars, obsVars, storage, storeReads>>

\* destroy(), followed by the callers' catches for the queued items.
Destroy ==
    /\ ~terminated
    /\ terminated' = TRUE
    /\ pendingRequests' = {}
    /\ timers' = timers \ Range(requestQueue)
    /\ promise' = RejectIfPending(Range(requestQueue), {}, "rejected:destroyed")
    /\ requestQueue' = <<>>
    /\ toWorker' = <<>>
    /\ toHost' = <<>>
    /\ UNCHANGED <<messageId, requests, isProcessingQueue, loops, isReady>>
    /\ UNCHANGED <<workerVars, obsVars, storage, storeReads>>

\* handleWorkerMessage
HostReceive ==
    /\ toHost /= <<>>
    /\ toHost' = Tail(toHost)
    /\ LET m == Head(toHost) IN
         CASE m.type \in {"FETCH_RESULT", "FETCH_ERROR", "PONG", "AUTH_CALL_RESULT"} ->
                /\ IF hasPending(pendingRequests, m.id)
                   THEN /\ pendingRequests' = pendingRequests \ {m.id}
                        /\ promise' = [promise EXCEPT ![m.id] = Append(@,
                              IF m.type = "FETCH_ERROR"
                              THEN "resolved:err" ELSE "resolved:ok")]
                   ELSE UNCHANGED <<pendingRequests, promise>>
                /\ UNCHANGED isReady
           [] m.type = "READY" ->
                /\ isReady' = TRUE
                /\ UNCHANGED <<pendingRequests, promise>>
           [] OTHER -> UNCHANGED <<pendingRequests, promise, isReady>>
    /\ heard' = IF Head(toHost).type = "AUTH_STATE_CHANGED" THEN heard + 1 ELSE heard
    /\ UNCHANGED <<messageId, requests, requestQueue, isProcessingQueue, loops,
                   timers, terminated, toWorker>>
    /\ UNCHANGED <<responses, dueRefreshes, attached, timedOut, applied,
                   fetchOptions, lapsed, passed, calls, overtaken>>
    /\ UNCHANGED <<workerVars, storage, storeReads>>

(* ------------------------------------------------- specification         *)

NoRequest == [type |-> "none"]

\* The SETUP message of a client constructed with options.provider = pc and
\* options.allowedDomains = allowed.
SetupWith(pc, allowed) ==
    [type |-> "SETUP", id |-> SetupId,
     payload |-> [config |-> [isNull |-> FALSE, allowedDomains |-> allowed,
                              refreshEarlyMs |-> DEFAULT_REFRESH_EARLY_MS],
                  providerConfig |-> pc]]

SetupMessage(pc) == SetupWith(pc, AllowedDomains)

\* The state once `new FetchGuardClient(options)` has returned, but for the
\* SETUP message and the token state.
Unposted ==
    /\ messageId = SetupId
    /\ requests = [i \in Ids |-> NoRequest]
    /\ pendingRequests = {}
    /\ requestQueue = <<>>
    /\ isProcessingQueue = FALSE
    /\ loops = 0
    /\ timers = {}
    /\ promise = [i \in Ids |-> <<>>]
    /\ isReady = FALSE
    /\ terminated = FALSE
    /\ toHost = <<>>
    /\ config = NoConfig
    /\ provider = FALSE
    /\ pendingControllers = {}
    /\ aborted = {}
    /\ refreshPromise = FALSE
    /\ refreshRejected = FALSE
    /\ task = [i \in Ids |-> "none"]
    /\ now = 0
    /\ responses = [i \in Ids |-> <<>>]
    /\ dueRefreshes = 0
    /\ attached = [i \in Ids |-> Absent]
    /\ fetchOptions = [i \in Ids |-> {}]
    /\ heard = 0
    /\ overtaken = FALSE
    /\ calls = [i \in Ids |-> [refresh |-> 0, network |-> 0]]
    /\ lapsed = {}
    /\ passed = [i \in Ids |-> Absent]
    /\ storeReads = {}
    /\ timedOut = {}
    /\ applied = NoCall

\* The same with the SETUP message posted.
Constructed == Unposted /\ \E pc \in ProviderConfigs : toWorker = <<SetupMessage(pc)>>

\* The state once `new FetchGuardClient(options)` has returned.
Init == Constructed /\ tokenState = Baseline /\ storage = Absent

\* postMessage may throw for any number of the queued messages.
AnyThrows == 0..Cardinality(Ids)

NoThrows == {0}

\* The worker, with a client that issues any request and cancels at will and
\* has not come to handle the worker's answers: toHost is then the log of
\* everything the worker posted.  What the client does besides (handling an
\* answer, timeouts, worker errors, destroy, messages that cannot be posted)
\* only removes messages the worker would otherwise receive.
NextWorker ==
    \/ \E msg \in FetchRequests : Issue(msg, NoThrows, MaxReq)
    \/ \E msg \in AuthRequests : Issue(msg, NoThrows, MaxReq)
    \/ \E msg \in PingRequests : Issue(msg, NoThrows, MaxReq)
    \/ DelayExpired(NoThrows)
    \/ \E id \in Ids : Cancel(id)
    \/ WorkerReceive
    \/ \E id \in Ids : \E o \in ProviderOutcomes(now) :
          RefreshReturns(id, o) /\ UNCHANGED <<storage, storeReads>>
    \/ \E id \in Ids : \E o \in NetworkOutcomes \cup {"aborted"} : NetworkReturns(id, o)
    \/ \E id \in Ids : \E o \in ProviderOutcomes(now) :
          AuthReturns(id, o) /\ UNCHANGED <<storage, storeReads>>
    \/ Tick

Spec == Init /\ [][NextWorker]_vars

\* The ways a provider call can end, with one token for the successful one.
ProviderEndings(t) == {o \in ProviderOutcomes(t) : o.data.token \in {Absent, "tB"}}

\* A provider call or a network call settles.
Settles ==
    \/ \E id \in Ids : \E o \in ProviderEndings(now) :
          RefreshReturns(id, o) /\ UNCHANGED <<storage, storeReads>>
    \/ \E id \in Ids : \E o \in NetworkOutcomes \cup {"aborted"} : NetworkReturns(id, o)
    \/ \E id \in Ids : \E o \in ProviderEndings(now) :
          AuthReturns(id, o) /\ UNCHANGED <<storage, storeReads>>

NextFair ==
    \/ \E msg \in FetchRequests : Issue(msg, NoThrows, MaxReq)
    \/ \E msg \in AuthRequests : Issue(msg, NoThrows, MaxReq)
    \/ \E msg \in PingRequests : Issue(msg, NoThrows, MaxReq)
    \/ DelayExpired(NoThrows)
    \/ \E id \in Ids : Cancel(id)
    \/ WorkerReceive
    \/ Settles

\* The worker where it takes every message delivered to it and the provider
\* and the network eventually return.  Which tokens the provider returns and
\* what the time is make no difference to whether a handler answers.
SpecFair == Init /\ [][NextFair]_vars /\ WF_vars(WorkerReceive) /\ WF_vars(Settles)

\* What the application asks for when the client is studied: a ping, a
\* public fetch, an authenticated fetch to a URL outside the allow-list, a
\* login and a call of a method the provider does not have.
ClientRequests ==
    PingRequests
        \cup {[type |-> "FETCH", payload |-> [url |-> UrlApi, requiresAuth |-> FALSE]],
              [type |-> "FETCH", payload |-> [url |-> UrlEvil, requiresAuth |-> TRUE]],
              [type |-> "AUTH_CALL", payload |-> [method |-> "login", emitEvent |-> TRUE]],
              [type |-> "AUTH_CALL", payload |-> [method |-> "nosuch", emitEvent |-> TRUE]]}

\* The client with its worker: requests are issued, posted after the queue's
\* delay or not at all when postMessage throws, answered, timed out,
\* cancelled; the worker may raise an error event and the client may be
\* destroyed.
NextClient ==
    \/ \E msg \in ClientRequests : Issue(msg, AnyThrows, MaxReq)
    \/ DelayExpired(AnyThrows)
    \/ \E id \in Ids : Timeout(id)
    \/ \E id \in Ids : Cancel(id)
    \/ WorkerError
    \/ Destroy
    \/ HostReceive
    \/ WorkerReceive
    \/ \E id \in Ids : \E o \in NetworkOutcomes \cup {"aborted"} : NetworkReturns(id, o)
    \/ \E id \in Ids : \E o \in ProviderEndings(now) :
          AuthReturns(id, o) /\ UNCHANGED <<storage, storeReads>>

SpecClient == Init /\ [][NextClient]_vars

\* The queue of the client: requests are issued faster than the loop posts
\* them, time out or are cancelled while they wait, and postMessage may
\* throw.
NextQueue ==
    \/ \E msg \in PingRequests : Issue(msg, AnyThrows, MaxQueued)
    \/ DelayExpired(AnyThrows)
    \/ \E id \in Ids : Timeout(id)
    \/ \E id \in Ids : Cancel(id)
    \/ HostReceive
    \/ WorkerReceive

SpecQueue == Init /\ [][NextQueue]_vars

\* The queue of a client that may also be destroyed, where every 50 ms delay
\* of the loop comes to its end (setTimeout fires).
NextDrain ==
    \/ \E msg \in PingRequests : Issue(msg, AnyThrows, MaxQueued)
    \/ DelayExpired(AnyThrows)
    \/ \E id \in Ids : Timeout(id)
    \/ \E id \in Ids : Cancel(id)
    \/ Destroy
    \/ HostReceive
    \/ WorkerReceive

SpecDrain == Init /\ [][NextDrain]_vars /\ WF_vars(DelayExpired(AnyThrows))

(* ------------------------------------------------- handshake             *)

\* options.provider as FetchGuardOptions types it: a preset config or a
\* registered name (either of which the worker may be unable to build), or a
\* TokenProvider instance.
ProviderOptions == ProviderConfigs \cup {"instance"}

\* What initializeWorker posts: for a TokenProvider instance it throws before
\* it builds the message, which rejects the promise the constructor dropped.
initializeWorker(option) ==
    IF option = "instance" THEN <<>> ELSE <<SetupMessage(option)>>

\* The state once `new FetchGuardClient(options)` has returned, for every
\* options.provider.
InitHandshake ==
    /\ Unposted
    /\ tokenState = Baseline
    /\ storage = Absent
    /\ \E option \in ProviderOptions : toWorker = initializeWorker(option)

\* The client from its construction on, with an application that pings: the
\* event loops of both sides run the queue's timer and deliver every message
\* posted, and the worker answers well within the 5 s a ping may take.
NextHandshake ==
    \/ \E msg \in PingRequests : Issue(msg, NoThrows, MaxQueued)
    \/ DelayExpired(NoThrows)
    \/ WorkerReceive
    \/ HostReceive

SpecHandshake ==
    /\ InitHandshake
    /\ [][NextHandshake]_vars
    /\ WF_vars(DelayExpired(NoThrows))
    /\ WF_vars(WorkerReceive)
    /\ WF_vars(HostReceive)

(* ------------------------------------------------- public requests       *)

\* fetch(url, {requiresAuth: false, includeHeaders, method: 'POST'})
PublicRequests ==
    { [type |-> "FETCH",
       payload |-> [url |-> u, requiresAuth |-> FALSE, includeHeaders |-> h,
                    method |-> "POST"]] : u \in FetchUrls, h \in BOOLEAN }

Logins == { [type |-> "AUTH_CALL", payload |-> [method |-> "login", emitEvent |-> TRUE]] }

\* Public requests to a worker in any token state a login can leave it in,
\* at any time of the token's life.
NextPublic ==
    \/ \E msg \in PublicRequests \cup Logins : Issue(msg, NoThrows, MaxReq)
    \/ DelayExpired(NoThrows)
    \/ WorkerReceive
    \/ \E id \in Ids : \E o \in ProviderOutcomes(now) :
          AuthReturns(id, o) /\ UNCHANGED <<storage, storeReads>>
    \/ \E id \in Ids : \E o \in NetworkOutcomes : NetworkReturns(id, o)
    \/ Tick

SpecPublic == Init /\ [][NextPublic]_vars

(* ------------------------------------------------- auth calls            *)

\* call(method) without emitEvent
DefaultCalls ==
    { [type |-> "AUTH_CALL", payload |-> [method |-> me]] : me \in AuthMethods }

\* call(method, emitEvent) and call(method) with a listener registered by
\* onAuthStateChanged: the worker answers and the client handles what the
\* worker posts.
NextAuth ==
    \/ \E msg \in AuthRequests \cup DefaultCalls : Issue(msg, NoThrows, MaxReq)
    \/ DelayExpired(NoThrows)
    \/ WorkerReceive
    \/ \E id \in Ids : \E o \in ProviderOutcomes(now) :
          AuthReturns(id, o) /\ UNCHANGED <<storage, storeReads>>
    \/ HostReceive

SpecAuth == Init /\ [][NextAuth]_vars

(* ------------------------------------------------- ends of a refresh     *)

RefreshingRequests ==
    { [type |-> "FETCH", payload |-> [url |-> UrlApi, requiresAuth |-> TRUE]] }

\* Authenticated FETCHes to a worker whose provider (a registered
\* TokenProvider) may end a refresh in every way: with a TokenInfo, an error,
\* ok(null), a rejected promise, or an exception thrown by the call itself.
NextRefresh ==
    \/ \E msg \in RefreshingRequests : Issue(msg, NoThrows, MaxReq)
    \/ DelayExpired(NoThrows)
    \/ WorkerReceive
    \/ WorkerReceiveSyncThrow
    \/ \E id \in Ids : \E o \in ProviderOutcomes(now) :
          RefreshReturns(id, o) /\ UNCHANGED <<storage, storeReads>>
    \/ \E id \in Ids : \E o \in NetworkOutcomes : NetworkReturns(id, o)
    \/ Tick

SpecRefresh == Init /\ [][NextRefresh]_vars

(* ------------------------------------------------- validateDomain alone  *)

HostNames ==
    { <<"e", ".", "c">>, <<"a", ".", "e", ".", "c">>,
      <<"a", ".", "b", ".", "e", ".", "c">>, <<"e", ".", "c", ".", "x">>,
      <<"x", "e", ".", "c">>, <<"l">> }

\* What new URL(url) gives: it throws, or a hostname and a port ('' when the
\* URL names none).
ParsedUrls ==
    {[ok |-> FALSE, hostname |-> <<>>, port |-> <<>>]}
        \cup [ok : {TRUE}, hostname : HostNames, port : {<<>>, <<"5">>, <<"6">>}]

\* Entries of allowedDomains: exact and wildcard hosts, with and without a
\* port, and one with two colons.
DomainEntries ==
    { <<"e", ".", "c">>, <<"*", ".", "e", ".", "c">>,
      <<"e", ".", "c", ":", "5">>, <<"*", ".", "e", ".", "c", ":", "5">>,
      <<"a", ".", "e", ".", "c">>, <<"l">>, <<"l", ":", "5">>,
      <<"l", ":", ":", "5">> }

DomainLists ==
    {<<>>} \cup {<<e>> : e \in DomainEntries}
           \cup {<<e, f>> : e \in DomainEntries, f \in DomainEntries}

DomainRequests ==
    { [type |-> "FETCH", payload |-> [url |-> u, requiresAuth |-> FALSE]] : u \in ParsedUrls }

InitDomain ==
    /\ Unposted
    /\ tokenState = Baseline
    /\ storage = Absent
    /\ \E allowed \in DomainLists : toWorker = <<SetupWith("preset", allowed)>>

\* One public FETCH to any URL under any allow-list.
NextDomain ==
    \/ \E msg \in DomainRequests : Issue(msg, NoThrows, MaxChecked)
    \/ DelayExpired(NoThrows)
    \/ WorkerReceive
    \/ \E id \in Ids : \E o \in NetworkOutcomes : NetworkReturns(id, o)

SpecDomain == InitDomain /\ [][NextDomain]_vars

(* ------------------------------------------------- createProvider        *)

\* How the strategy's request ends: response.ok, a response that is not ok,
\* or a rejection (also of the parser).
StrategyResponses == {"ok", "not_ok", "throw"}

\* What the parser makes of a response at time t.  bodyParser returns all
\* four keys and cookieParser all but refreshToken, each undefined where the
\* response has no value.
Parsed(t) ==
    { TokenInfo("tA", t + LongLife, "u1", "rA"),
      TokenInfo("tB", t + ShortLife, Undef, Undef),
      TokenInfo(Undef, UndefN, Undef, Undef),
      TokenInfo("tA", t + LongLife, "u1", Absent),
      TokenInfo("tB", UndefN, Undef, Absent) }

ProviderError == [kind |-> "error", data |-> EmptyInfo]

\* logout() that leaves the refresh-token store as it is.
createProviderKeepsStore(method, response, parsed, store) ==
    IF response /= "ok" THEN [outcome |-> ProviderError, storage |-> store]
    ELSE IF method = "logout"
    THEN [outcome |-> [kind |-> "ok", data |-> TokenInfo("", UndefN, Undef, Undef)],
          storage |-> store]
    ELSE IF ~TruthyS(parsed.token) THEN [outcome |-> ProviderError, storage |-> store]
    ELSE [outcome |-> [kind |-> "ok", data |-> parsed],
          storage |-> IF store /= Absent /\ TruthyS(parsed.refreshToken)
                      THEN parsed.refreshToken ELSE store]

\* A method of the provider createProvider returns, called with the store
\* holding `store` (Absent: no refreshStorage configured): the Result it
\* returns and what the store holds afterwards.
createProvider(method, response, parsed, store) ==
    IF response /= "ok" THEN [outcome |-> ProviderError, storage |-> store]
    ELSE IF method = "logout"
    THEN [outcome |-> [kind |-> "ok", data |-> TokenInfo("", UndefN, Undef, Undef)],
          storage |-> IF store /= Absent THEN Null ELSE store]
    ELSE IF ~TruthyS(parsed.token) THEN [outcome |-> ProviderError, storage |-> store]
    ELSE [outcome |-> [kind |-> "ok", data |-> parsed],
          storage |-> IF store /= Absent /\ TruthyS(parsed.refreshToken)
                      THEN parsed.refreshToken ELSE store]

\* refreshToken testing `refreshToken == null`, which undefined passes too.
readsStoreIfNullish(method, refreshToken, store) ==
    method = "refreshToken" /\ refreshToken \in {Null, Undef} /\ store /= Absent

\* The provider calls refreshStorage.get(): only refreshToken does, when it
\* was given null and a store is configured.
readsStore(method, refreshToken, store) ==
    method = "refreshToken" /\ refreshToken = Null /\ store /= Absent

\* The method called by AUTH_CALL id returns.
CreatedAuthReturns(id, response, parsed) ==
    LET method == requests[id].payload.method
        r == createProvider(method, response, parsed, storage)
    IN  /\ AuthReturns(id, r.outcome)
        /\ storage' = r.storage
        /\ storeReads' = IF readsStore(method, passed[id], storage)
                         THEN storeReads \cup {id} ELSE storeReads

\* The refreshToken called by ensureValidToken returns.
CreatedRefreshReturns(id, response, parsed) ==
    LET r == createProvider("refreshToken", response, parsed, storage)
    IN  /\ RefreshReturns(id, r.outcome)
        /\ storage' = r.storage
        /\ storeReads' = IF readsStore("refreshToken", passed[id], storage)
                         THEN storeReads \cup {id} ELSE storeReads

\* What the application asks of a worker whose provider createProvider built.
ProviderRequests ==
    { [type |-> "AUTH_CALL", payload |-> [method |-> me, emitEvent |-> ev]] :
        me \in ProviderMethods, ev \in BOOLEAN }
        \cup {[type |-> "FETCH", payload |-> [url |-> UrlApi, requiresAuth |-> TRUE]]}

\* The store is not configured, empty, or holds the token of an earlier
\* session.
InitProvider ==
    Constructed /\ tokenState = Baseline /\ storage \in {Absent, Null, "rB"}

NextProvider ==
    \/ \E msg \in ProviderRequests : Issue(msg, NoThrows, MaxReq)
    \/ DelayExpired(NoThrows)
    \/ WorkerReceive
    \/ \E id \in Ids : \E response \in StrategyResponses : \E parsed \in Parsed(now) :
          CreatedAuthReturns(id, response, parsed)
    \/ \E id \in Ids : \E response \in StrategyResponses : \E parsed \in Parsed(now) :
          CreatedRefreshReturns(id, response, parsed)
    \/ \E id \in Ids : \E o \in NetworkOutcomes : NetworkReturns(id, o)

SpecProvider == InitProvider /\ [][NextProvider]_vars

(* ------------------------------------------------- setTokenState alone   *)

\* The values the worker can hold in its four fields.
TokenStates ==
    [accessToken : {Null, ""} \cup TokenStrings,
     expiresAt : {NullN, ShortLife, LongLife},
     currentUser : {Undef, Null, "u1", "u2"},
     refreshToken : {Null, "rA", "rB"}]

\* Every Partial<TokenInfo>: each key absent, undefined, null or set.
PartialTokenInfos ==
    [token : {Absent, Undef, Null, ""} \cup TokenStrings,
     expiresAt : {AbsentN, UndefN, NullN, ShortLife, LongLife},
     user : {Absent, Undef, Null, "u1", "u2"},
     refreshToken : {Absent, Undef, Null, "rA", "rB"}]

InitMerge == Constructed /\ tokenState \in TokenStates /\ storage = Absent

\* One call setTokenState(tokenInfo, false).
ApplyTokenInfo(tokenInfo) ==
    /\ ~applied.done
    /\ tokenState' = setTokenState(tokenState, tokenInfo)
    /\ applied' = [done |-> TRUE, before |-> tokenState, tokenInfo |-> tokenInfo]
    /\ UNCHANGED <<config, provider, pendingControllers, aborted, refreshPromise,
                   refreshRejected, task, now>>
    /\ UNCHANGED <<responses, dueRefreshes, attached, timedOut, storage, storeReads>>
    /\ UNCHANGED <<fetchOptions, heard, overtaken, calls, lapsed, passed>>
    /\ UNCHANGED <<hostVars, chanVars>>

NextMerge == \E tokenInfo \in PartialTokenInfos : ApplyTokenInfo(tokenInfo)

SpecMerge == InitMerge /\ [][NextMerge]_vars

(* ------------------------------------------------- properties            *)

\* An authenticated FETCH to an allowed URL.
AuthFetch(id) ==
    /\ requests[id].type = "FETCH"
    /\ requests[id].payload.requiresAuth
    /\ validateDomain(AllowedDomains, requests[id].payload.url)

\* The FETCHes whose ensureValidToken a settling refresh lets go on.
Released == {i \in Ids : task[i] \in {"refresh", "join"} /\ task'[i] = "fetch"}

RefreshesInFlight ==
    {i \in Ids : task[i] = "refresh"}
        \cup {i \in Ids : task[i] = "auth" /\ requests[i].payload.method = "refreshToken"}

\* C3: setTokenState overwrites a field with the value of its key when the
\* key is present in the partial (null stays null; undefined is stored as
\* null for accessToken, expiresAt and refreshToken and as undefined for
\* user), and leaves the field at its prior value when the key is absent.
C3_FieldPreservation ==
    applied.done =>
        LET before == applied.before
            tokenInfo == applied.tokenInfo
        IN  /\ tokenState.accessToken =
                  (IF tokenInfo.token = Absent THEN before.accessToken
                   ELSE IF tokenInfo.token = Undef THEN Null ELSE tokenInfo.token)
            /\ tokenState.expiresAt =
                  (IF tokenInfo.expiresAt = AbsentN THEN before.expiresAt
                   ELSE IF tokenInfo.expiresAt = UndefN THEN NullN ELSE tokenInfo.expiresAt)
            /\ tokenState.currentUser =
                  (IF tokenInfo.user = Absent THEN before.currentUser ELSE tokenInfo.user)
            /\ tokenState.refreshToken =
                  (IF tokenInfo.refreshToken = Absent THEN before.refreshToken
                   ELSE IF tokenInfo.refreshToken = Undef THEN Null
                   ELSE tokenInfo.refreshToken)

\* {user: u2, refreshToken: null} applied to {token: tA, user: u1,
\* refreshToken: rA, expiresAt: set}: user and refreshToken are overwritten,
\* token and expiresAt are kept.
C3_Witness ==
    /\ applied.done
    /\ applied.tokenInfo = TokenInfo(Absent, AbsentN, "u2", Null)
    /\ applied.before = [accessToken |-> "tA", expiresAt |-> LongLife,
                         currentUser |-> "u1", refreshToken |-> "rA"]
    /\ tokenState = [accessToken |-> "tA", expiresAt |-> LongLife,
                     currentUser |-> "u2", refreshToken |-> Null]

\* C2: at most one provider.refreshToken call is in flight at any time.
C2_AtMostOneInFlight == Cardinality(RefreshesInFlight) <= 1

\* The token strings the worker may hold.
Secrets == TokenStrings \cup {"rA"}

\* The token state with other token strings in place of the stored ones.
Renamed(st) ==
    [st EXCEPT !.accessToken = IF @ = "tA" THEN "tB" ELSE IF @ = "tB" THEN "tA" ELSE @,
               !.refreshToken = IF @ = "rA" THEN "rB" ELSE @]

\* C4: no message posted to the host carries a token: AUTH_STATE_CHANGED and
\* AUTH_CALL_RESULT payloads have exactly the fields authenticated,
\* expiresAt and user, no text field of any message is a token string, and
\* what the worker posts and decides next is the same when the stored token
\* strings are replaced by other token strings.
C4_NoTokenLeaves ==
    /\ \A n \in 1..Len(toHost) :
          LET m == toHost[n] IN
          /\ m.type \in {"AUTH_STATE_CHANGED", "AUTH_CALL_RESULT"} =>
                /\ DOMAIN m.payload = {"authenticated", "expiresAt", "user"}
                /\ m.payload.user \notin Secrets
          /\ m.type \in {"FETCH_ERROR", "SETUP_ERROR"} => m.payload.error \notin Secrets
          /\ m.type = "ERROR" => m.payload.errors \notin Secrets
          /\ m.type = "FETCH_RESULT" => m.payload.body \notin Secrets
          /\ m.type = "PONG" => m.payload.timestamp \notin Secrets
    /\ authResult(Renamed(tokenState), now) = authResult(tokenState, now)
    /\ postAuthChanged(Renamed(tokenState), now) = postAuthChanged(tokenState, now)
    /\ \A rp \in BOOLEAN :
          ensureValidToken(provider, Renamed(tokenState), config, now, rp)
              = ensureValidToken(provider, tokenState, config, now, rp)
    /\ (bearer(Renamed(tokenState).accessToken) = Null) = (bearer(tokenState.accessToken) = Null)

\* The worker holds an access token and a refresh token and has told the
\* host, in an event and in the answer to the call, that it is authenticated.
C4_Witness ==
    /\ tokenState.accessToken \in TokenStrings
    /\ tokenState.refreshToken = "rA"
    /\ \E n \in 1..Len(toHost) :
          toHost[n].type = "AUTH_STATE_CHANGED" /\ toHost[n].payload.authenticated
    /\ \E n \in 1..Len(toHost) :
          toHost[n].type = "AUTH_CALL_RESULT" /\ toHost[n].payload.authenticated

\* A FETCH to a URL outside the allow-list.
Disallowed(id) ==
    /\ requests[id].type = "FETCH"
    /\ ~validateDomain(AllowedDomains, requests[id].payload.url)

\* C5: a FETCH whose URL fails the allow-list check never owns or awaits a
\* refresh and never has a network call; the worker answers it with the
\* domain error and nothing else.
C5_DomainBeforeToken ==
    \A id \in Ids :
        Disallowed(id) =>
            /\ task[id] \in {"none", "done"}
            /\ attached[id] = Absent
            /\ id \notin pendingControllers
            /\ responses[id] = (IF task[id] = "done"
                                THEN << <<"FETCH_ERROR", "DOMAIN_NOT_ALLOWED">> >>
                                ELSE <<>>)

\* An authenticated FETCH to a URL outside the allow-list has been answered
\* while the worker has a provider and no access token.
C5_Witness ==
    \E id \in Ids :
        /\ Disallowed(id)
        /\ requests[id].payload.requiresAuth
        /\ task[id] = "done"
        /\ provider
        /\ tokenState.accessToken = Null
        /\ dueRefreshes = 0

\* The worker takes up the authenticated FETCH id, to an allowed URL, with a
\* provider.
Accepts(id) == AuthFetch(id) /\ provider /\ task[id] = "none" /\ task'[id] /= "none"

\* What C6 says of the FETCH id the worker takes up.
Window(id) ==
    IF tokenState.expiresAt - now <= refreshEarlyMs(config)
    THEN /\ task'[id] \in {"refresh", "join"}
         /\ refreshPromise'
         /\ attached'[id] = Absent
    ELSE /\ task'[id] = "fetch"
         /\ attached'[id] = tokenState.accessToken
         /\ refreshPromise' = refreshPromise
         /\ dueRefreshes' = dueRefreshes

\* C6 as the claim has it: the window decides for every non-null access
\* token with a non-null expiresAt.
C6_WindowNonNull ==
    [][\A id \in Ids :
          (Accepts(id) /\ tokenState.accessToken /= Null /\ tokenState.expiresAt /= NullN)
              => Window(id)]_vars

\* C6, amended: with a non-empty access token and a non-null expiresAt, an
\* authenticated FETCH waits for a provider refresh (the one it starts or the
\* one in flight) when expiresAt - now <= refreshEarlyMs, and its network
\* call is issued, with the token stored then, in the step that settles the
\* refresh; when expiresAt - now > refreshEarlyMs its network call is issued
\* at once with the stored token and no provider invocation.
C6_Window ==
    /\ [][\A id \in Ids :
            (Accepts(id) /\ tokenState.accessToken \notin {Null, ""}
                        /\ tokenState.expiresAt /= NullN)
                => Window(id)]_vars
    /\ [][\A id \in Released :
            refreshPromise /\ ~refreshPromise'
                /\ attached'[id] = bearer(tokenState'.accessToken)]_vars
    /\ [](\A id \in Ids : task[id] \in {"refresh", "join"} => attached[id] = Absent)

\* A FETCH owns a refresh it started although the stored token is still
\* valid, because it expires within refreshEarlyMs.
C6_Witness ==
    \E id \in Ids :
        /\ AuthFetch(id)
        /\ task[id] = "refresh"
        /\ tokenState.accessToken \in TokenStrings
        /\ tokenState.expiresAt > now
        /\ tokenState.expiresAt - now <= refreshEarlyMs(config)

Delivered(id) ==
    \/ \E n \in 1..Len(toWorker) : toWorker[n].id = id /\ toWorker[n].type /= "CANCEL"
    \/ task[id] /= "none"

\* The answers the protocol pairs with each request.
Answers(type) ==
    CASE type = "FETCH" -> {"FETCH_RESULT", "FETCH_ERROR"}
      [] type = "AUTH_CALL" -> {"AUTH_CALL_RESULT", "ERROR"}
      [] type = "PING" -> {"PONG", "ERROR"}
      [] OTHER -> {}

\* C8: every FETCH, AUTH_CALL and PING the worker receives is answered by
\* exactly one message with its id, of a type paired with the request: none
\* while the handler is waiting, one once it is through, and every request
\* delivered to the worker gets there, given that the provider and the
\* network call return.
C8_ExactlyOneResponse ==
    /\ [](\A id \in Ids :
            /\ Len(responses[id]) = (IF task[id] = "done" THEN 1 ELSE 0)
            /\ \A n \in 1..Len(responses[id]) :
                  responses[id][n][1] \in Answers(requests[id].type))
    /\ \A id \in Ids : Delivered(id) ~> (task[id] = "done")

\* A FETCH that waited for a refresh and an AUTH_CALL have both been
\* answered, each once.
C8_Witness ==
    \E i, j \in Ids :
        /\ requests[i].type = "FETCH" /\ requests[j].type = "AUTH_CALL"
        /\ requests[i].payload.requiresAuth
        /\ responses[i] = << <<"FETCH_RESULT", "-">> >>
        /\ responses[j] = << <<"AUTH_CALL_RESULT", "-">> >>

\* The id of the message the client handles next.
Handled == Head(toHost).id

\* C9: every promise handed to a caller is settled at most once; handling a
\* worker message settles no promise and removes no pending entry but those
\* of the message's own id; and handling a response whose pending entry is
\* gone changes nothing in the client.
C9_CorrelationIntegrity ==
    /\ [](\A id \in Ids : Len(promise[id]) <= 1)
    /\ [][HostReceive =>
            /\ \A id \in Ids \ {Handled} :
                  /\ promise'[id] = promise[id]
                  /\ (id \in pendingRequests') = (id \in pendingRequests)
            /\ (Handled \in Ids /\ ~hasPending(pendingRequests, Handled)) =>
                  UNCHANGED <<promise, pendingRequests, requestQueue, timers,
                              isProcessingQueue, messageId, isReady>>]_vars

\* A request was cancelled, the worker answered it all the same, and the
\* client has handled that answer: the promise stays rejected once.
C9_Witness ==
    \E id \in Ids :
        /\ promise[id] = <<"rejected:cancel">>
        /\ ~terminated
        /\ Len(responses[id]) = 1
        /\ InTransit(id) = 0

\* C10: a request whose timeout fired before any response to it arrived has
\* its caller's promise rejected with the timeout error and no pending
\* entry.
C10_TimeoutRejects ==
    \A id \in timedOut :
        /\ promise[id] = <<"rejected:timeout">>
        /\ id \notin pendingRequests

\* C11: destroy() rejects the promise of every request outstanding on the
\* host, queued or sent and unanswered, with the destruction error, and
\* leaves the queue and the pending-request table empty.
C11_DestroyRejectsAll ==
    [][Destroy =>
          /\ \A id \in pendingRequests \cup Range(requestQueue) :
                promise'[id] = <<"rejected:destroyed">>
          /\ requestQueue' = <<>>
          /\ pendingRequests' = {}]_vars

\* The SETUP of the run has been handled and has left the worker without a
\* provider.
SetupFailed == \E n \in 1..Len(toHost) : toHost[n].type = "SETUP_ERROR"

\* The answers that report an initialization error.
InitErrorAnswers == {<<"FETCH_ERROR", "INIT_ERROR">>, <<"ERROR", "INIT_ERROR">>}

\* C12: while no SETUP has succeeded, every FETCH, AUTH_CALL and PING the
\* worker handles is answered with an initialization error, and none of
\* them gets as far as a network call or a provider call.
C12_UninitializedRefuses ==
    ~provider =>
        \A id \in Ids :
            /\ task[id] \in {"none", "done"}
            /\ \A n \in 1..Len(responses[id]) : responses[id][n] \in InitErrorAnswers

\* C13: a SETUP that ends in SETUP_ERROR leaves config and provider as they
\* were before it, and a FETCH handled afterwards, authenticated or public,
\* is answered with the initialization error without a network call.
C13_SetupErrorKeepsUninitialized ==
    SetupFailed =>
        /\ config = NoConfig
        /\ ~provider
        /\ \A id \in Ids :
              requests[id].type = "FETCH" =>
                  /\ task[id] \in {"none", "done"}
                  /\ attached[id] = Absent
                  /\ \A n \in 1..Len(responses[id]) :
                        responses[id][n] = <<"FETCH_ERROR", "INIT_ERROR">>

\* C14: whenever the network call of a FETCH completes with an HTTP
\* response, of status 2xx or not, the worker answers FETCH_RESULT; a
\* FETCH_ERROR reports only an initialization, domain, token, network or
\* abort failure.
C14_HttpResponseIsResult ==
    /\ [][\A id \in Ids :
            (NetworkReturns(id, "ok") \/ NetworkReturns(id, "http_error"))
                => responses'[id] = << <<"FETCH_RESULT", "-">> >>]_vars
    /\ [](\A id \in Ids : \A n \in 1..Len(responses[id]) :
            responses[id][n][1] = "FETCH_ERROR" =>
                responses[id][n][2] \in {"INIT_ERROR", "DOMAIN_NOT_ALLOWED", "THROWN",
                                         "NETWORK_ERROR", "REQUEST_CANCELLED"})

\* The message the worker posted last.
LastPosted == toHost'[Len(toHost')]

\* C15: when an AUTH_CALL 'logout' succeeds on a provider built by
\* createProvider, the AuthResult the worker sends has authenticated false,
\* the worker's accessToken is the empty string and its refreshToken null,
\* and a configured refresh-token store holds null.
C15_LogoutClears ==
    [][\A id \in Ids : \A parsed \in Parsed(now) :
          (requests[id].type = "AUTH_CALL" /\ requests[id].payload.method = "logout"
              /\ CreatedAuthReturns(id, "ok", parsed))
          => /\ tokenState'.accessToken = ""
             /\ tokenState'.refreshToken = Null
             /\ ~authenticated(tokenState', now)
             /\ LastPosted = sendAuthCallResult(id, authResult(tokenState', now))
             /\ ~LastPosted.payload.authenticated
             /\ storage /= Absent => storage' = Null]_vars

\* After a login that stored tokens, a logout has succeeded: the host was
\* told authenticated true, then false, and the store was cleared.
C15_Witness ==
    /\ tokenState.accessToken = ""
    /\ tokenState.refreshToken = Null
    /\ storage = Null
    /\ \E i, j \in Ids :
          /\ requests[i].type = "AUTH_CALL" /\ requests[i].payload.method = "login"
          /\ requests[j].type = "AUTH_CALL" /\ requests[j].payload.method = "logout"
          /\ \E n \in 1..Len(toHost) : \E k \in (n + 1)..Len(toHost) :
                /\ toHost[n] = sendAuthCallResult(i, [authenticated |-> TRUE,
                                    expiresAt |-> LongLife, user |-> "u1"])
                /\ toHost[k].type = "AUTH_CALL_RESULT" /\ toHost[k].id = j
                /\ ~toHost[k].payload.authenticated

\* The queued message id is posted to the worker in this step.
Posts(id) ==
    /\ Len(toWorker') = Len(toWorker) + 1
    /\ toWorker'[Len(toWorker')].type /= "CANCEL"
    /\ toWorker'[Len(toWorker')].id = id

\* The ids of the queued messages among ms, in the order of ms.
RECURSIVE PostedIds(_)
PostedIds(ms) ==
    IF ms = <<>> THEN <<>>
    ELSE (IF Head(ms).type \in {"SETUP", "CANCEL"} THEN <<>> ELSE <<Head(ms).id>>)
            \o PostedIds(Tail(ms))

Increasing(q) == \A a, b \in 1..Len(q) : a < b => q[a] < q[b]

\* C16: queued messages are posted to the worker in the order in which they
\* were enqueued (ids are given in that order): the queue holds them in
\* that order, when a message is posted every message still waiting was
\* enqueued after it, and the messages on their way to the worker are in
\* that order.
C16_FifoOrder ==
    /\ [](Increasing(requestQueue) /\ Increasing(PostedIds(toWorker)))
    /\ [][\A id \in Ids :
            Posts(id) => /\ \A j \in Range(requestQueue') : id < j
                         /\ \A n \in 1..Len(toWorker) :
                               toWorker[n].type \notin {"SETUP", "CANCEL"}
                                   => toWorker[n].id < id]_vars

\* Three requests were enqueued while the worker was busy and are on their
\* way to it in the order of their enqueueing.
C16_Witness == PostedIds(toWorker) = <<SetupId + 1, SetupId + 2, SetupId + 3>>

\* C17: a queued message is posted only when no inter-message delay is
\* running (isProcessingQueue is false: the delay after the last post is
\* over) or by the expiry of the running delay itself, and every post starts
\* a delay; a message enqueued while a delay runs waits for its expiry.
C17_Backpressure ==
    [][/\ \A id \in Ids :
            Posts(id) => /\ isProcessingQueue => DelayExpired(AnyThrows)
                         /\ isProcessingQueue'
       /\ (isProcessingQueue /\ messageId' /= messageId) =>
            /\ toWorker' = toWorker
            /\ requestQueue' = Append(requestQueue, messageId')]_vars

\* A request enqueued during the delay after the first post has been posted
\* by the expiry of that delay, and a third one waits for the next expiry.
C17_Witness ==
    /\ isProcessingQueue
    /\ requestQueue = <<SetupId + 3>>
    /\ PostedIds(toWorker) = <<SetupId + 1, SetupId + 2>>

\* cancel(id) rejects the promise of id in this step.
Cancels(id) ==
    /\ Len(promise'[id]) = Len(promise[id]) + 1
    /\ promise'[id][Len(promise'[id])] = "rejected:cancel"

\* The worker handles CANCEL for id in this step.
HandlesCancel(id) ==
    /\ WorkerReceive
    /\ Head(toWorker).type = "CANCEL"
    /\ Head(toWorker).id = id

\* C18: cancel(id) on a pending request posts CANCEL for id at once,
\* whatever is waiting in the queue, and rejects the promise of id with the
\* cancellation error, the queue being left as it is; the worker, handling
\* that CANCEL, aborts the controller registered under id if there is one
\* and no other; an aborted network call ends as cancelled and only an
\* aborted one does.
C18_CancelAbortsOnlyItsId ==
    [][\A id \in Ids :
          /\ Cancels(id) =>
                /\ id \in pendingRequests /\ id \notin pendingRequests'
                /\ promise'[id] = <<"rejected:cancel">>
                /\ ~terminated => toWorker' = Append(toWorker, [type |-> "CANCEL", id |-> id])
                /\ requestQueue' = requestQueue
                /\ \A j \in Ids \ {id} : promise'[j] = promise[j]
          /\ HandlesCancel(id) =>
                /\ aborted' = aborted \cup ({id} \cap pendingControllers)
                /\ pendingControllers' = pendingControllers \ {id}
                /\ task' = task
          /\ (task[id] = "fetch" /\ task'[id] = "done") =>
                (id \in aborted) =
                    (responses'[id] = << <<"FETCH_ERROR", "REQUEST_CANCELLED">> >>)]_vars

\* Of two FETCHes in flight together the later one was cancelled and its
\* network call ended as cancelled, while the earlier one is still in flight
\* and not aborted.
C18_Witness ==
    \E i, j \in Ids :
        /\ j < i
        /\ promise[i] = <<"rejected:cancel">>
        /\ responses[i] = << <<"FETCH_ERROR", "REQUEST_CANCELLED">> >>
        /\ task[j] = "fetch"
        /\ j \notin aborted
        /\ j \in pendingControllers

\* The worker has validated the URL of FETCH id and let it pass, or refused
\* it.
Validated(id) == requests[id].type = "FETCH" /\ task[id] /= "none"

Refused(id) == responses[id] = << <<"FETCH_ERROR", "DOMAIN_NOT_ALLOWED">> >>

Passed(id) == Validated(id) /\ ~Refused(id)

\* An allow-list entry as the documentation reads it: a host pattern,
\* followed by ':' and a port when the entry has exactly one colon.
Colons(entry) == {i \in 1..Len(entry) : entry[i] = ":"}

SpecifiesPort(entry) == Cardinality(Colons(entry)) = 1

HostPattern(entry) ==
    IF SpecifiesPort(entry)
    THEN SubSeq(entry, 1, (CHOOSE i \in Colons(entry) : TRUE) - 1)
    ELSE entry

PortOf(entry) == SubSeq(entry, (CHOOSE i \in Colons(entry) : TRUE) + 1, Len(entry))

\* '*.B' takes the hostname B and every hostname that ends with '.B'; any
\* other pattern takes the hostname equal to it.
HostMatches(pattern, hostname) ==
    IF Len(pattern) >= 2 /\ pattern[1] = "*" /\ pattern[2] = "."
    THEN LET B == SubSeq(pattern, 3, Len(pattern))
         IN  \/ hostname = B
             \/ \E k \in 1..Len(hostname) :
                   /\ hostname[k] = "."
                   /\ SubSeq(hostname, k + 1, Len(hostname)) = B
    ELSE hostname = pattern

\* C19: under a configured (non-empty) allow-list a URL passes only if the
\* host pattern of some entry matches its hostname, '*.B' matching exactly
\* the hostname B and the hostnames that end with '.B' and any other pattern
\* exactly the hostname equal to it; and when no entry names a port the URL
\* passes if and only if some entry matches its hostname.
C19_HostMatching ==
    \A id \in Ids :
        (Validated(id) /\ requests[id].payload.url.ok /\ Len(config.allowedDomains) > 0) =>
            LET allowed == config.allowedDomains
                hostname == requests[id].payload.url.hostname
                hits == {n \in 1..Len(allowed) : HostMatches(HostPattern(allowed[n]), hostname)}
            IN  /\ Passed(id) => hits /= {}
                /\ (\A n \in 1..Len(allowed) : ~SpecifiesPort(allowed[n]))
                      => (Passed(id) = (hits /= {}))

\* Under the list ['*.e.c'] the URL with hostname a.b.e.c has passed.
C19_Witness ==
    \E id \in Ids :
        /\ config.allowedDomains = << <<"*", ".", "e", ".", "c">> >>
        /\ requests[id].type = "FETCH"
        /\ requests[id].payload.url.hostname = <<"a", ".", "b", ".", "e", ".", "c">>
        /\ task[id] = "fetch"

\* C20: with an empty allowedDomains every URL passes; otherwise a URL that
\* does not parse is refused, and a URL that parses passes exactly when some
\* entry matches its hostname and either names no port or names the port of
\* the URL.
C20_PortAndOptIn ==
    \A id \in Ids :
        Validated(id) =>
            LET allowed == config.allowedDomains
                url == requests[id].payload.url
            IN  IF Len(allowed) = 0 THEN Passed(id)
                ELSE IF ~url.ok THEN Refused(id)
                ELSE Passed(id) =
                        (\E n \in 1..Len(allowed) :
                            /\ HostMatches(HostPattern(allowed[n]), url.hostname)
                            /\ SpecifiesPort(allowed[n]) => url.port = PortOf(allowed[n]))

\* Under the list ['l:5'] the URL with hostname l and port 6 has been
\* refused.
C20_Witness ==
    \E id \in Ids :
        /\ config.allowedDomains = << <<"l", ":", "5">> >>
        /\ requests[id].type = "FETCH"
        /\ requests[id].payload.url = [ok |-> TRUE, hostname |-> <<"l">>, port |-> <<"6">>]
        /\ Refused(id)

\* A FETCH with requiresAuth: false.
Public(id) == requests[id].type = "FETCH" /\ ~requests[id].payload.requiresAuth

FetchGuardFlags == {"requiresAuth", "includeHeaders"}

\* C21: a FETCH with requiresAuth false never waits for ensureValidToken and
\* starts no refresh, whatever the token state: the step in which the worker
\* takes it up answers it with an error or issues its network call, leaves
\* refreshPromise and the token state as they are, and the call carries no
\* Authorization header; and the init object of the call holds the other
\* options, `signal`, `headers` and `credentials` but neither requiresAuth
\* nor includeHeaders.
C21_PublicFetch ==
    /\ [](\A id \in Ids :
            Public(id) =>
                /\ task[id] \in {"none", "fetch", "done"}
                /\ attached[id] \in {Absent, Null}
                /\ fetchOptions[id] \cap FetchGuardFlags = {})
    /\ [](~refreshPromise /\ dueRefreshes = 0)
    /\ [][\A id \in Ids :
            (Public(id) /\ task[id] = "none" /\ task'[id] /= "none") =>
                /\ refreshPromise' = refreshPromise
                /\ tokenState' = tokenState
                /\ task'[id] = "fetch" =>
                      /\ attached'[id] = Null
                      /\ fetchOptions'[id] = {"method", "signal", "headers", "credentials"}]_vars

\* A public FETCH with includeHeaders is on the network without a header
\* while the worker holds a token that has expired.
C21_Witness ==
    \E id \in Ids :
        /\ Public(id)
        /\ requests[id].payload.includeHeaders
        /\ task[id] = "fetch"
        /\ attached[id] = Null
        /\ tokenState.accessToken = "tB"
        /\ tokenState.expiresAt < now

\* The AUTH_CALL id has been answered with an AuthResult.
Succeeded(id) == responses[id] = << <<"AUTH_CALL_RESULT", "-">> >>

\* The AUTH_STATE_CHANGED events among the messages ms.
Events(ms) == {n \in 1..Len(ms) : ms[n].type = "AUTH_STATE_CHANGED"}

\* The AUTH_CALL id was made with emitEvent true or without emitEvent.
EmitNotFalse(id) ==
    /\ requests[id].type = "AUTH_CALL"
    /\ "emitEvent" \in DOMAIN requests[id].payload => requests[id].payload.emitEvent

\* The worker answers AUTH_CALL id in this step.
AnswersCall(id) == task[id] = "auth" /\ task'[id] = "done"

C23_AuthErrorResolves ==
    [][(HostReceive /\ Head(toHost).type = "ERROR"
            /\ hasPending(pendingRequests, Handled)) =>
          /\ promise'[Handled] = <<"resolved:err">>
          /\ ~hasPending(pendingRequests', Handled)]_vars

\* A refresh through the provider of createProvider succeeds for id in this
\* step with the parsed response `parsed`: the one ensureValidToken started,
\* or an AUTH_CALL 'refreshToken'.
Refreshed(id, parsed) ==
    /\ TruthyS(parsed.token)
    /\ \/ CreatedRefreshReturns(id, "ok", parsed)
       \/ /\ requests[id].type = "AUTH_CALL"
          /\ requests[id].payload.method = "refreshToken"
          /\ CreatedAuthReturns(id, "ok", parsed)

\* C24: after a successful refresh through a provider with bodyParser or
\* cookieParser, every field the backend response leaves out (the parser
\* finds no value for it) is what it was before the refresh: the user, and
\* likewise expiresAt and the refresh token.
C24_RefreshKeepsUser ==
    [][\A id \in Ids : \A parsed \in Parsed(now) :
          Refreshed(id, parsed) =>
              /\ parsed.user = Undef => tokenState'.currentUser = tokenState.currentUser
              /\ parsed.expiresAt = UndefN => tokenState'.expiresAt = tokenState.expiresAt
              /\ parsed.refreshToken \in {Undef, Absent} =>
                    tokenState'.refreshToken = tokenState.refreshToken]_vars

\* C25: when the refresh that authenticated FETCHes wait for returns and
\* leaves the worker without an access token, ensureValidToken has no token
\* for them and each is answered with the error NOT_AUTHENTICATED; no
\* authenticated FETCH has a network call without an Authorization header.
C25_NoTokenIsNotAuthenticated ==
    /\ [][\A owner \in Ids : \A o \in ProviderOutcomes(now) :
            (o.kind /= "throw" /\ RefreshReturns(owner, o)
                /\ bearer(tokenState'.accessToken) = Null) =>
                \A id \in Ids :
                    task[id] \in {"refresh", "join"} =>
                        /\ task'[id] = "done"
                        /\ responses'[id] = << <<"FETCH_ERROR", "NOT_AUTHENTICATED">> >>]_vars
    /\ [](\A id \in Ids :
            (requests[id].type = "FETCH" /\ requests[id].payload.requiresAuth) =>
                ~(task[id] = "fetch" /\ attached[id] = Null))

\* C26: refreshPromise is non-null exactly while a refresh is running (a
\* FETCH handler is inside the async block, waiting for the provider), and
\* it is null after every step that ends a refresh: the provider returned a
\* TokenInfo, an error or null, its promise rejected, or the call threw.
C26_RefreshPromiseCleared ==
    /\ [](refreshPromise <=> \E id \in Ids : task[id] = "refresh")
    /\ [][(\E id \in Ids : task[id] = "refresh" /\ task'[id] /= "refresh")
            => ~refreshPromise']_vars
    /\ [][WorkerReceiveSyncThrow => ~refreshPromise']_vars

\* The READY and SETUP_ERROR messages among ms.
SetupOutcomes(ms) == {n \in 1..Len(ms) : ms[n].type \in {"READY", "SETUP_ERROR"}}

\* The worker handles SETUP in this step.
HandlesSetup == WorkerReceive /\ Head(toWorker).type = "SETUP"

\* C27: the step in which the worker handles SETUP posts one message, READY
\* if it has built a provider and SETUP_ERROR if not, and no other step
\* posts a READY or a SETUP_ERROR; the host becomes ready only by handling
\* READY.
C27_OneSetupOutcome ==
    /\ [][HandlesSetup =>
            /\ Len(toHost') = Len(toHost) + 1
            /\ SubSeq(toHost', 1, Len(toHost)) = toHost
            /\ toHost'[Len(toHost')].type = (IF provider' THEN "READY" ELSE "SETUP_ERROR")]_vars
    /\ [][~HandlesSetup =>
            Cardinality(SetupOutcomes(toHost')) <= Cardinality(SetupOutcomes(toHost))]_vars
    /\ [][isReady' /= isReady =>
            /\ HostReceive
            /\ Head(toHost).type = "READY"
            /\ isReady']_vars
    /\ [](isReady => provider)

\* The worker has built its provider and the host has handled READY and is
\* ready.
C27_Witness ==
    /\ isReady
    /\ provider
    /\ ~terminated
    /\ SetupOutcomes(toHost) = {}

\* C28: at most one drain loop of processQueue is active on the host at any
\* time, whatever the interleaving of enqueues, delay expirations, timeouts
\* and throwing postMessage calls, and isProcessingQueue is set exactly while
\* a loop is suspended at its delay (it is false whenever no loop runs).
C28_OneDrainLoop ==
    /\ loops <= 1
    /\ isProcessingQueue <=> (loops = 1)

\* C28: a loop is waiting at its delay with an item queued behind it, after a
\* timeout fired and a postMessage threw.
C28_Witness ==
    /\ loops = 1
    /\ requestQueue /= <<>>
    /\ timedOut /= {}
    /\ \E i \in Ids : promise[i] = <<"rejected:post">>


\* C29: the timeout of a queue item is armed when the item is enqueued, not
\* when it is sent: after the enqueue its timer is armed (unless its own
\* postMessage threw in the same step) and every item waiting in the queue
\* has its timer armed. An item whose timeout fires while it is still in the
\* queue is removed from the queue and is never posted to the worker.
C29_TimeoutWhileQueued ==
    /\ [](Range(requestQueue) \subseteq timers)
    /\ [][messageId' /= messageId
            => \/ messageId' \in timers'
               \/ promise'[messageId'] = <<"rejected:post">>]_vars
    /\ [](\A id \in lapsed :
            /\ id \notin Range(requestQueue)
            /\ \A n \in 1..Len(toWorker) :
                  toWorker[n].type \notin {"SETUP", "CANCEL"}
                      => toWorker[n].id /= id)
    /\ [][\A id \in lapsed' : ~Posts(id)]_vars

\* C29: an item timed out while it was waiting in the queue, and an item
\* enqueued after it has been posted to the worker since.
C29_Witness ==
    \E id \in lapsed :
        \E n \in 1..Len(toWorker) :
            toWorker[n].type = "PING" /\ toWorker[n].id > id


\* C30: on a worker error event every entry of the pending-request table has
\* its caller's promise rejected exactly once and the table is emptied: the
\* entries of the table are unsettled promises, the event rejects each of
\* them and clears the table, and a promise rejected by the event was not
\* settled before and is never settled again.
C30_WorkerErrorRejectsAll ==
    /\ [](\A id \in pendingRequests : promise[id] = <<>>)
    /\ [][WorkerError
            => /\ pendingRequests' = {}
               /\ \A id \in pendingRequests :
                     promise'[id] = <<"rejected:worker">>]_vars
    /\ [](\A id \in Ids :
            (\E n \in 1..Len(promise[id]) : promise[id][n] = "rejected:worker")
                => promise[id] = <<"rejected:worker">>)

\* C30: a worker error found two entries in the table and rejected both; the
\* answer to one of them is still on its way to the client.
C30_Witness ==
    /\ pendingRequests = {}
    /\ \E i, j \in Ids :
          /\ i /= j
          /\ promise[i] = <<"rejected:worker">>
          /\ promise[j] = <<"rejected:worker">>
          /\ InTransit(i) > 0


\* The handler of FETCH id is between its pendingControllers.set and the
\* posting of its response.
Processing(id) == requests[id].type = "FETCH" /\ task[id] \in {"refresh", "join", "fetch"}

\* C31: a CANCEL for an id whose FETCH the worker is not processing (it has
\* completed, or was never received) changes no worker state and produces
\* no message; pendingControllers holds an entry for an id only while the
\* FETCH with that id is being processed, and none once its response has
\* been posted.
C31_CancelWithoutCall ==
    /\ [][\A id \in Ids :
            (HandlesCancel(id) /\ ~Processing(id))
                => UNCHANGED <<workerVars, toHost, responses>>]_vars
    /\ [](\A id \in pendingControllers : Processing(id))
    /\ [](\A id \in Ids : responses[id] /= <<>> => id \notin pendingControllers)

\* C31: the worker has handled the CANCEL for a FETCH it had already
\* answered with a result.
C31_Witness ==
    \E id \in Ids :
        /\ promise[id] = <<"rejected:cancel">>
        /\ responses[id] = << <<"FETCH_RESULT", "-">> >>
        /\ \A n \in 1..Len(toWorker) : toWorker[n].id /= id


\* The provider call of id ends in this step as a refresh or login that
\* succeeded with the parsed TokenInfo.
ProviderSucceeds(id, parsed) ==
    \/ /\ CreatedRefreshReturns(id, "ok", parsed)
       /\ TruthyS(parsed.token)
    \/ /\ requests[id].type = "AUTH_CALL"
       /\ requests[id].payload.method \in {"login", "refreshToken"}
       /\ CreatedAuthReturns(id, "ok", parsed)
       /\ TruthyS(parsed.token)

\* The provider call of id ends in this step as a refresh or login that
\* failed.
ProviderFails(id) ==
    /\ \/ task[id] = "refresh"
       \/ /\ task[id] = "auth"
          /\ requests[id].payload.method \in {"login", "refreshToken"}
    /\ \E response \in StrategyResponses : \E parsed \in Parsed(now) :
          /\ response /= "ok" \/ ~TruthyS(parsed.token)
          /\ \/ CreatedRefreshReturns(id, response, parsed)
             \/ CreatedAuthReturns(id, response, parsed)

\* C32: the refresh-token store is read only when provider.refreshToken is
\* called with a null refresh token and a store is configured; a successful
\* refresh or login that returns a refresh token sets the store to that
\* token, and a failed refresh or login does not write the store.
C32_StoreUse ==
    [][\A id \in Ids :
          /\ (id \in storeReads' /\ id \notin storeReads)
                => /\ passed[id] = Null
                   /\ storage /= Absent
                   /\ \/ task[id] = "refresh"
                      \/ requests[id].payload.method = "refreshToken"
          /\ \A parsed \in Parsed(now) :
                (ProviderSucceeds(id, parsed) /\ TruthyS(parsed.refreshToken)
                    /\ storage /= Absent)
                    => storage' = parsed.refreshToken
          /\ ProviderFails(id) => storage' = storage]_vars

\* C32: a refresh called with null read the store, which held the token of an
\* earlier session, and wrote the new refresh token in its place.
C32_Witness ==
    /\ storeReads /= {}
    /\ storage = "rA"
    /\ tokenState.refreshToken = "rA"


\* The worker calls provider.refreshToken for message id in this step.
CallsRefreshToken(id) == passed[id] = Absent /\ passed'[id] /= Absent

\* C33: every invocation of provider.refreshToken the worker makes, from
\* ensureValidToken as well as from an AUTH_CALL with method 'refreshToken',
\* receives the worker's current in-memory refresh token as its argument
\* (null when none is held).
C33_RefreshTokenArgument ==
    [][\A id \in Ids :
          CallsRefreshToken(id) => passed'[id] = tokenState.refreshToken]_vars


\* C34: no retry: processing one FETCH message causes at most one
\* provider.refreshToken invocation and at most one network call to the
\* target URL, whatever the outcome of the refresh or of the call; a handler
\* that has posted its answer makes no further call.
C34_NoRetry ==
    /\ [](\A id \in Ids : calls[id].refresh <= 1 /\ calls[id].network <= 1)
    /\ [][\A id \in Ids : task[id] = "done" => calls'[id] = calls[id]]_vars

\* C34: a FETCH whose refresh ended in an error made its one network call,
\* which failed, and was answered with the network error.
C34_Witness ==
    \E id \in Ids :
        /\ calls[id] = [refresh |-> 1, network |-> 1]
        /\ tokenState.accessToken = Null
        /\ responses[id] = << <<"FETCH_ERROR", "NETWORK_ERROR">> >>


\* The SETUP messages on their way to the worker.
SetupsPosted == {n \in 1..Len(toWorker) : toWorker[n].type = "SETUP"}

\* C35: constructing a client posts exactly one SETUP message, carrying the
\* configured allowedDomains and provider config, and it is the first
\* message the worker receives: no FETCH, AUTH_CALL or PING issued through
\* the client reaches the worker before SETUP; once READY has arrived, a
\* ping() resolves to an ok result.
C35_Handshake ==
    /\ [](Cardinality(SetupsPosted) = IF config.isNull THEN 1 ELSE 0)
    /\ [](\A n \in SetupsPosted :
            /\ n = 1
            /\ toWorker[n].payload.config.allowedDomains = AllowedDomains
            /\ toWorker[n].payload.providerConfig \in ProviderConfigs)
    /\ [](~config.isNull => config.allowedDomains = AllowedDomains)
    /\ [][(WorkerReceive /\ Head(toWorker).type /= "SETUP") => ~config.isNull]_vars
    /\ \A id \in Ids :
          (isReady /\ requests[id].type = "PING")
              ~> (promise[id] = <<"resolved:ok">>)


\* The worker takes in this step the authenticated FETCH id, which passes
\* the initialisation and allow-list checks.
TakesAuthFetch(id) ==
    /\ WorkerReceive
    /\ Head(toWorker).type = "FETCH"
    /\ Head(toWorker).id = id
    /\ Head(toWorker).payload.requiresAuth
    /\ ~config.isNull
    /\ provider
    /\ validateDomain(config.allowedDomains, Head(toWorker).payload.url)

\* C36: while the worker holds a non-empty access token with expiresAt =
\* null, a state it reports as authenticated, an authenticated FETCH
\* attaches that token without invoking provider.refreshToken.
C36_NoExpiryNoRefresh ==
    [][\A id \in Ids :
          (/\ TakesAuthFetch(id)
           /\ TruthyS(tokenState.accessToken)
           /\ tokenState.expiresAt = NullN)
              => /\ authenticated(tokenState, now)
                 /\ task'[id] = "fetch"
                 /\ attached'[id] = tokenState.accessToken
                 /\ calls'[id].refresh = 0
                 /\ refreshPromise' = refreshPromise]_vars


\* The worker takes in this step the FETCH id, which the host cancelled
\* while the message was still in its queue: the CANCEL, posted at once,
\* went ahead of the FETCH and is no longer on its way.
TakesCancelledFetch(id) ==
    /\ WorkerReceive
    /\ Head(toWorker).type = "FETCH"
    /\ Head(toWorker).id = id
    /\ id \in Cancelled
    /\ \A n \in 1..Len(toWorker) : toWorker[n].type = "CANCEL" => toWorker[n].id /= id

\* C37: a request cancelled by the host while its message is still waiting
\* in the send queue is never executed by the worker: when the worker takes
\* the FETCH with that id after the cancel, no network call results.
C37_CancelledWhileQueued ==
    [][\A id \in Ids : TakesCancelledFetch(id) => calls'[id].network = 0]_vars


\* The worker answers AUTH_CALL id with an error in this step.
FailsCall(id) ==
    /\ requests[id].type = "AUTH_CALL"
    /\ responses[id] = <<>>
    /\ responses'[id] /= <<>>
    /\ responses'[id][1][1] = "ERROR"

\* C38: a failed AUTH_CALL (worker not initialized, method not found on the
\* provider, provider returns an error or null data, or the call throws)
\* leaves accessToken, refreshToken, expiresAt and user unchanged and emits
\* no AUTH_STATE_CHANGED event: the error under its id is all the worker
\* posts, and every call that ends in one of these ways is answered so.
C38_FailedCallChangesNothing ==
    /\ [][\A id \in Ids :
            FailsCall(id)
                => /\ tokenState' = tokenState
                   /\ \E code \in {"INIT_ERROR", "UNEXPECTED", "PROVIDER_ERROR"} :
                         toHost' = Append(toHost, sendError(id, code))]_vars
    /\ [][\A id \in Ids :
            AnswersCall(id)
                => \/ FailsCall(id)
                   \/ /\ responses'[id] = << <<"AUTH_CALL_RESULT", "-">> >>
                      /\ \E o \in ProviderOutcomes(now) :
                            o.kind = "ok" /\ tokenState' = setTokenState(tokenState, o.data)]_vars
    /\ [][\A id \in Ids :
            (/\ WorkerReceive
             /\ Head(toWorker).type = "AUTH_CALL"
             /\ Head(toWorker).id = id
             /\ ~provider \/ Head(toWorker).payload.method \notin ProviderMethods)
                => FailsCall(id)]_vars

\* C38: after a login that left a token and a user, a second call failed with
\* a provider error and the token, its expiry, the refresh token and the
\* user are still those of the login.
C38_Witness ==
    /\ tokenState = [accessToken |-> "tA", expiresAt |-> LongLife,
                     currentUser |-> "u1", refreshToken |-> "rA"]
    /\ \E id \in Ids : responses[id] = << <<"ERROR", "PROVIDER_ERROR">> >>


\* The refresh of ensureValidToken settles in this step.
RefreshSettles ==
    \E id \in Ids : task[id] = "refresh" /\ task'[id] /= "refresh"

\* C39: the token state a successful login wrote is not cleared or
\* overwritten by the outcome of a refresh that was started before the login
\* completed: when such a refresh settles, the token state stays as it is.
C39_StaleRefreshKeepsLogin ==
    [][overtaken /\ RefreshSettles => tokenState' = tokenState]_vars


\* Message id is in the queue before this step, or is pushed in it, and is
\* not in the queue after it.
LeavesQueue(id) ==
    /\ id \in Range(requestQueue) \/ (messageId' = id /\ messageId /= id)
    /\ id \notin Range(requestQueue')

\* postMessage throws for message id in this step: the catch of processQueue
\* clears its timer.
PostThrows(id) == LeavesQueue(id) /\ id \notin timers' /\ id \notin lapsed'

NeverStranded ==
    /\ [](~isProcessingQueue => requestQueue = <<>>)
    /\ \A id \in Ids : (id \in Range(requestQueue)) ~> (id \notin Range(requestQueue))
    /\ isProcessingQueue ~> ~isProcessingQueue

\* C40 as stated: every message enqueued on the host is posted to the worker
\* unless its timeout fires first or the client is destroyed; the loop ends
\* when the queue is empty and resets its flag, and no item is stranded.
C40_AsStated ==
    /\ NeverStranded
    /\ [][\A id \in Ids :
            LeavesQueue(id) => Posts(id) \/ id \in lapsed' \/ terminated']_vars

\* C40: every message enqueued on the host is posted to the worker unless
\* its timeout fires first, the client is destroyed, or postMessage throws
\* for it (its promise is then rejected and its timer cleared); the loop
\* ends when the queue is empty and resets its flag, and an item enqueued at
\* any time, the loop's last delay included, leaves the queue.
C40_EventuallyPosted ==
    /\ NeverStranded
    /\ [][\A id \in Ids :
            LeavesQueue(id) => \/ Posts(id)
                               \/ id \in lapsed'
                               \/ terminated'
                               \/ PostThrows(id)]_vars

\* C40: the loop has ended with its flag reset and the queue empty after
\* three messages were enqueued: two have been posted, the later one after
\* the earlier, and postMessage threw for the third.
C40_Witness ==
    /\ ~isProcessingQueue /\ loops = 0 /\ requestQueue = <<>>
    /\ ~terminated /\ lapsed = {}
    /\ \E a, b, c \in Ids :
          /\ a < b
          /\ \E n, k \in 1..Len(toWorker) :
                n < k /\ toWorker[n].id = a /\ toWorker[k].id = b
                      /\ toWorker[n].type = "PING" /\ toWorker[k].type = "PING"
          /\ promise[c] = <<"rejected:post">>

====
